---- MODULE Spec2Model ----
(***************************************************************************)
(* Verification model of the budgetai-explainer backend:                   *)
(*   - llm/groq_client.py          GroqClient.chat_completion              *)
(*   - ingestion/text_splitter.py  SemanticTextSplitter                    *)
(*   - ingestion/pdf_loader.py     PDFLoader.load_pdf / load_all_pdfs      *)
(*   - ingestion/ingest.py         IngestionPipeline.process_documents     *)
(*   - ingestion/metadata_tagger.py MetadataTagger.tag_chunks              *)
(*   - ingestion/metadata_tagger.py MetadataTagger.tag_chunk               *)
(*   - ingestion/text_splitter.py  _calculate_quality_score,               *)
(*                                 _split_into_sentences                   *)
(*   - rag/ : retrieval, the singleton accessors, upload, embeddings       *)
(* Each subsystem has its own specification over the shared variables; a   *)
(* specification keeps the variables of the other subsystems at their      *)
(* initial values.                                                         *)
(***************************************************************************)
EXTENDS Integers, Sequences, FiniteSets, TLC

VARIABLES
    gq_frames,      \* call stack of chat_completion activations (position of each)
    gq_ret,         \* value a finished activation hands to the activation below it
    gq_calls,       \* completion-service calls issued by the current invocation
    gq_sleeps,      \* time.sleep(2) calls of the current invocation
    gq_outcomes,    \* what the service answered, call by call
    gq_result,      \* what the outermost caller received
    sp_cfg,         \* the splitter under test: chunk_size, chunk_overlap, min_chunk_size
    sp_sentences,   \* the sentences of the page being split
    sp_pc,          \* "ready" before split_text, "done" after
    sp_chunks,      \* the chunks split_text returned
    in_dir,         \* the files of documents_dir
    in_pc,          \* position of process_documents
    pdf_files,      \* load_all_pdfs: the files still to load, in glob order
    documents,      \* load_all_pdfs: the documents loaded so far
    failed_files,   \* load_all_pdfs: names of the files that gave no document
    chunks_by_doc,  \* process_documents: filename -> chunks (dict, insertion order)
    tagged_by_doc,  \* process_documents: filename -> tagged chunks
    all_chunks,     \* process_documents: the flattened corpus that is saved
    in_i,           \* process_documents: how many entries the current loop has done
    ld_name,        \* load_pdf alone: the path it is called with
    ld_file,        \* load_pdf alone: the file behind the path
    ld_fallback,    \* load_pdf alone: its use_fallback argument
    ld_pc,          \* load_pdf alone: "ready" before the call, "done" after
    ld_run,         \* load_pdf alone: what the call did and returned
    vs_rows,        \* vector store: the rows of budget_chunks
    vs_ivfflat,     \* vector store: whether scans go through the IVFFlat index
    rp_top_k,       \* RAGPipeline.top_k
    rp_threshold,   \* RAGPipeline.similarity_threshold
    rp_max_context, \* RAGPipeline.max_context_chunks
    rq_active,      \* the requests that are made
    rq_sims,        \* per request: cosine similarity of its query to every row
    rq_filter,      \* per request: user_metadata, <<>> when absent
    rq_pc,          \* per request: position in query()
    rq_embeds,      \* per request: query embeddings computed
    rq_searches,    \* per request: similarity searches issued
    rq_found,       \* per request: what the vector store handed back to it
    rq_chunks,      \* the "chunks" variable of query(), by slot
    rq_generated,   \* per request: <<top_chunks, prompt, response>> once generated
    sg_rag_pipeline, \* the module variable _rag_pipeline: <<>> for None, else <<id>>
    sg_groq_client, \* the module variable _groq_client: <<>> for None, else <<id>>
    sg_pipelines,   \* the RAGPipeline objects created so far, by id
    sg_clients,     \* how many GroqClient objects were created
    sg_stack,       \* per thread: the frames of its accessor calls, innermost last
    sg_calls,       \* accessor calls made by the threads so far
    sg_returns,     \* what the callers of the threads received
    up_chunks,      \* upload_chunks_batch: the embedded chunks it is given
    up_batch_size,  \* upload_chunks_batch: batch_size
    up_table_dim,   \* the length of the embedding column of budget_chunks
    up_i,           \* upload_chunks_batch: the loop offset i
    up_success,     \* upload_chunks_batch: success_count
    up_failed,      \* upload_chunks_batch: failed_count
    up_rows,        \* the rows the table has taken
    up_batches,     \* the batches attempted so far
    up_pc,          \* "loop" while batches remain, "done" once stats are returned
    up_stats,       \* <<the statistics returned>>, <<>> before
    em_embedder,    \* embed_chunks: which generator runs
    em_chunks,      \* embed_chunks: the chunks it is given
    em_batch_size,  \* embed_chunks: batch_size
    em_pc,          \* "ready" before the call, then "done" or "raised"
    em_out,         \* embed_chunks: the chunks it returned
    cd_splitter,    \* chunk_document alone: the splitter it is called on
    cd_document,    \* chunk_document alone: the PDFDocument it is given
    cd_pc,          \* chunk_document alone: "ready" before the call, "done" after
    cd_chunks,      \* chunk_document alone: the chunks it returned
    qs_text,        \* quality score: the chunk text that is scored
    qs_built,       \* quality score: the TextChunk objects built around that text
    tg_text,        \* tag_chunk: the chunk text it is given
    tg_pc,          \* tag_chunk: "ready" before the call, "done" after
    tg_meta,        \* tag_chunk: <<the ChunkMetadata returned>>, <<>> before
    ss_text,        \* _split_into_sentences: the text it is given
    ss_pc,          \* _split_into_sentences: "ready" before the call, "done" after
    ss_sentences    \* _split_into_sentences: the sentences it returned

gqVars == <<gq_frames, gq_ret, gq_calls, gq_sleeps, gq_outcomes, gq_result>>
spVars == <<sp_cfg, sp_sentences, sp_pc, sp_chunks>>
inVars == <<in_dir, in_pc, pdf_files, documents, failed_files, chunks_by_doc,
            tagged_by_doc, all_chunks, in_i>>
ldVars == <<ld_name, ld_file, ld_fallback, ld_pc, ld_run>>
rqVars == <<vs_rows, vs_ivfflat, rp_top_k, rp_threshold, rp_max_context, rq_active,
            rq_sims, rq_filter, rq_pc, rq_embeds, rq_searches, rq_found, rq_chunks,
            rq_generated>>
sgVars == <<sg_rag_pipeline, sg_groq_client, sg_pipelines, sg_clients, sg_stack,
            sg_calls, sg_returns>>
upVars == <<up_chunks, up_batch_size, up_table_dim, up_i, up_success, up_failed,
            up_rows, up_batches, up_pc, up_stats>>
emVars == <<em_embedder, em_chunks, em_batch_size, em_pc, em_out>>
cdVars == <<cd_splitter, cd_document, cd_pc, cd_chunks>>
qsVars == <<qs_text, qs_built>>
tgVars == <<tg_text, tg_pc, tg_meta>>
ssVars == <<ss_text, ss_pc, ss_sentences>>
extVars == <<ldVars, rqVars, sgVars, upVars, emVars, cdVars, qsVars, tgVars, ssVars>>
vars == <<gqVars, spVars, inVars, extVars>>

(***************************************************************************)
(* Generic helpers                                                         *)
(***************************************************************************)
Last(s) == s[Len(s)]

Front(s) == SubSeq(s, 1, Len(s) - 1)

RECURSIVE SumSeq(_)
SumSeq(s) == IF s = <<>> THEN 0 ELSE Head(s) + SumSeq(Tail(s))

RECURSIVE Concat(_)
Concat(ss) == IF ss = <<>> THEN <<>> ELSE Head(ss) \o Concat(Tail(ss))

(***************************************************************************)
(* llm/groq_client.py : GroqClient.chat_completion                         *)
(***************************************************************************)

\* Depth of the interpreter's call stack that chat_completion can recurse to.
RecursionLimit == 4

\* The substrings the except-branch looks for in str(e).
Markers == {"rate_limit", "429"}

\* What one call of client.chat.completions.create can do: return a response
\* with text, return a response whose content is None, or raise an exception
\* whose message contains the given markers.
ServiceOutcomes ==
    {[kind |-> "text", msg |-> {}], [kind |-> "none", msg |-> {}]}
        \cup {[kind |-> "error", msg |-> m] : m \in SUBSET Markers}

ServiceText == "text"

fallback_response == "apology"

IsRateLimitAlways(msg) == TRUE

\* "rate_limit" in error_msg.lower() or "429" in error_msg
IsRateLimit(msg) == "rate_limit" \in msg \/ "429" \in msg

\* The top activation finishes with v ("text", "apology" or "raise"): the
\* outermost activation hands v to the caller, any other to the one below.
Finish(v) ==
    IF Len(gq_frames) = 1
    THEN /\ gq_frames' = <<>>
         /\ gq_ret' = "none"
         /\ gq_result' = IF v = "raise" THEN "raised" ELSE v
    ELSE /\ gq_frames' = Front(gq_frames)
         /\ gq_ret' = v
         /\ UNCHANGED gq_result

\* A caller invokes chat_completion(messages).
Invoke ==
    /\ gq_frames = <<>>
    /\ gq_frames' = <<"create">>
    /\ gq_ret' = "none"
    /\ gq_calls' = 0
    /\ gq_sleeps' = 0
    /\ gq_outcomes' = <<>>
    /\ gq_result' = "none"
    /\ UNCHANGED <<spVars, inVars, extVars>>

\* The try block: one call of the completion service and what follows it up
\* to the next blocking point.
ServiceCall ==
    /\ gq_frames # <<>>
    /\ Last(gq_frames) = "create"
    /\ Len(gq_frames) < RecursionLimit
    /\ \E o \in ServiceOutcomes :
        /\ gq_calls' = gq_calls + 1
        /\ gq_outcomes' = Append(gq_outcomes, o)
        /\ CASE o.kind = "text" ->
                    \* return content
                    Finish(ServiceText) /\ UNCHANGED gq_sleeps
             [] o.kind = "none" ->
                    \* len(content) raises TypeError inside the try; its
                    \* message holds no marker
                    Finish(fallback_response) /\ UNCHANGED gq_sleeps
             [] o.kind = "error" /\ IsRateLimit(o.msg) ->
                    /\ gq_frames' = [gq_frames EXCEPT ![Len(gq_frames)] = "sleep"]
                    /\ UNCHANGED <<gq_ret, gq_result, gq_sleeps>>
             [] OTHER ->
                    Finish(fallback_response) /\ UNCHANGED gq_sleeps
    /\ UNCHANGED <<spVars, inVars, extVars>>

\* The stack is exhausted: the call made in the try block raises
\* RecursionError before it reaches the service.  Its message holds no
\* marker, so the activation logs the error and returns the fallback; the
\* logging call itself may not fit on the stack, and then the RecursionError
\* leaves the activation.
StackExhausted ==
    /\ gq_frames # <<>>
    /\ Last(gq_frames) = "create"
    /\ Len(gq_frames) >= RecursionLimit
    /\ \E v \in {fallback_response, "raise"} :
        /\ (v = "raise" => Len(gq_frames) > 1)
        /\ Finish(v)
    /\ UNCHANGED <<gq_calls, gq_sleeps, gq_outcomes, spVars, inVars, extVars>>

\* Rate limited: time.sleep(2), then self.chat_completion(...) inside the
\* inner try.
SleepAndRetry ==
    /\ gq_frames # <<>>
    /\ Last(gq_frames) = "sleep"
    /\ gq_sleeps' = gq_sleeps + 1
    /\ gq_frames' = Append([gq_frames EXCEPT ![Len(gq_frames)] = "await"], "create")
    /\ UNCHANGED <<gq_ret, gq_calls, gq_outcomes, gq_result, spVars, inVars, extVars>>

RetryPropagates(v) == v

\* What the inner try/except makes of the recursive call's outcome: its value
\* is returned as is, an exception becomes the fallback.
RetryOutcome(v) == IF v = "raise" THEN fallback_response ELSE v

\* The recursive call has finished.
RetryReturn ==
    /\ gq_frames # <<>>
    /\ Last(gq_frames) = "await"
    /\ gq_ret # "none"
    /\ Finish(RetryOutcome(gq_ret))
    /\ UNCHANGED <<gq_calls, gq_sleeps, gq_outcomes, spVars, inVars, extVars>>

GroqStep == ServiceCall \/ StackExhausted \/ SleepAndRetry \/ RetryReturn


(***************************************************************************)
(* ingestion/text_splitter.py : SemanticTextSplitter                       *)
(* A sentence is represented by its number of characters, a text by the    *)
(* sequence of the sentences it is joined from.                            *)
(***************************************************************************)

\* core/config.py
CHUNK_SIZE == 500

CHUNK_OVERLAP == 50

\* default of the min_chunk_size parameter
MIN_CHUNK_SIZE == 100

\* SemanticTextSplitter.__init__; 0 stands for an omitted (or zero) argument,
\* which "or" replaces by the setting.
SemanticTextSplitter(chunk_size, chunk_overlap, min_chunk_size) ==
    [chunk_size     |-> IF chunk_size = 0 THEN CHUNK_SIZE ELSE chunk_size,
     chunk_overlap  |-> IF chunk_overlap = 0 THEN CHUNK_OVERLAP ELSE chunk_overlap,
     min_chunk_size |-> min_chunk_size]

\* len(' '.join(sentences))
JoinLen(sentences) ==
    IF sentences = <<>> THEN 0 ELSE SumSeq(sentences) + (Len(sentences) - 1)

\* _estimate_tokens, on the length of the text
estimate_tokens(text_len) == text_len \div 4

\* The loop "for sent in reversed(current_chunk)": i is the position of sent,
\* acc the overlap gathered so far.
RECURSIVE overlap_walk(_, _, _, _)
overlap_walk(self, current_chunk, i, acc) ==
    IF i = 0 THEN acc
    ELSE LET sent_tokens == estimate_tokens(current_chunk[i]) IN
         IF acc.overlap_tokens + sent_tokens <= self.chunk_overlap
         THEN overlap_walk(self, current_chunk, i - 1,
                  [overlap_sentences |-> <<current_chunk[i]>> \o acc.overlap_sentences,
                   overlap_tokens    |-> acc.overlap_tokens + sent_tokens])
         ELSE acc

\* A chunk as appended to chunks: the sentences it is joined from, and how
\* many of them were seeded from the chunk closed before it.
ChunkText(current_chunk, seeded) == [sents |-> current_chunk, overlap |-> seeded]

add_sentence_drops(self, st, sentence) ==
    LET sentence_tokens == estimate_tokens(sentence)
        closes == /\ st.current_tokens + sentence_tokens > self.chunk_size
                  /\ st.current_chunk # <<>>
        ov == overlap_walk(self, st.current_chunk, Len(st.current_chunk),
                           [overlap_sentences |-> <<>>, overlap_tokens |-> 0])
    IN  IF closes
        THEN [chunks         |-> Append(st.chunks,
                                        ChunkText(st.current_chunk, st.seeded)),
              current_chunk  |-> ov.overlap_sentences,
              current_tokens |-> ov.overlap_tokens,
              seeded         |-> Len(ov.overlap_sentences)]
        ELSE [st EXCEPT !.current_chunk  = Append(@, sentence),
                        !.current_tokens = @ + sentence_tokens]

\* One iteration of "for sentence in sentences".
add_sentence(self, st, sentence) ==
    LET sentence_tokens == estimate_tokens(sentence)
        closes == /\ st.current_tokens + sentence_tokens > self.chunk_size
                  /\ st.current_chunk # <<>>
        ov == overlap_walk(self, st.current_chunk, Len(st.current_chunk),
                           [overlap_sentences |-> <<>>, overlap_tokens |-> 0])
        base == IF closes
                THEN [chunks         |-> Append(st.chunks,
                                                ChunkText(st.current_chunk, st.seeded)),
                      current_chunk  |-> ov.overlap_sentences,
                      current_tokens |-> ov.overlap_tokens,
                      seeded         |-> Len(ov.overlap_sentences)]
                ELSE st
    IN  [base EXCEPT !.current_chunk  = Append(@, sentence),
                     !.current_tokens = @ + sentence_tokens]

RECURSIVE chunk_loop(_, _, _, _)
chunk_loop(self, sentences, i, st) ==
    IF i > Len(sentences) THEN st
    ELSE chunk_loop(self, sentences, i + 1, add_sentence(self, st, sentences[i]))

\* _create_chunks_from_sentences
create_chunks_from_sentences(self, sentences) ==
    LET st == chunk_loop(self, sentences, 1,
                  [chunks |-> <<>>, current_chunk |-> <<>>, current_tokens |-> 0,
                   seeded |-> 0])
    IN  IF /\ st.current_chunk # <<>>
           /\ estimate_tokens(JoinLen(st.current_chunk)) >= self.min_chunk_size \div 4
        THEN Append(st.chunks, ChunkText(st.current_chunk, st.seeded))
        ELSE st.chunks

\* split_text; a page text that is empty or all whitespace has no sentences.
split_text(self, sentences) ==
    IF sentences = <<>> THEN <<>> ELSE create_chunks_from_sentences(self, sentences)

\* str(n) for n >= 0
Digit(d) ==
    CASE d = 0 -> "0" [] d = 1 -> "1" [] d = 2 -> "2" [] d = 3 -> "3" [] d = 4 -> "4"
      [] d = 5 -> "5" [] d = 6 -> "6" [] d = 7 -> "7" [] d = 8 -> "8" [] OTHER -> "9"

RECURSIVE IntToStr(_)
IntToStr(n) == IF n < 10 THEN <<Digit(n)>> ELSE IntToStr(n \div 10) \o <<Digit(n % 10)>>

chunk_id_no_document(document_name, page_number, chunk_index) ==
    <<"_", "p">> \o IntToStr(page_number) \o <<"_", "c">> \o IntToStr(chunk_index)

\* f"{document_name}_p{page_number}_c{chunk_index}"
chunk_id(document_name, page_number, chunk_index) ==
    document_name \o <<"_", "p">> \o IntToStr(page_number)
                  \o <<"_", "c">> \o IntToStr(chunk_index)

chunk_page_first_page(self, document_name, page_number, page_sentences, start_chunk_index) ==
    LET text_chunks == split_text(self, page_sentences) IN
    [i \in 1..Len(text_chunks) |->
        LET chunk_index == start_chunk_index + (i - 1) IN
        [chunk_id      |-> chunk_id(document_name, 1, chunk_index),
         document_name |-> document_name,
         page_number   |-> 1,
         chunk_index   |-> chunk_index,
         text          |-> text_chunks[i],
         char_count    |-> JoinLen(text_chunks[i].sents),
         token_count   |-> estimate_tokens(JoinLen(text_chunks[i].sents))]]

\* chunk_page
chunk_page(self, document_name, page_number, page_sentences, start_chunk_index) ==
    LET text_chunks == split_text(self, page_sentences) IN
    [i \in 1..Len(text_chunks) |->
        LET chunk_index == start_chunk_index + (i - 1) IN
        [chunk_id      |-> chunk_id(document_name, page_number, chunk_index),
         document_name |-> document_name,
         page_number   |-> page_number,
         chunk_index   |-> chunk_index,
         text          |-> text_chunks[i],
         char_count    |-> JoinLen(text_chunks[i].sents),
         token_count   |-> estimate_tokens(JoinLen(text_chunks[i].sents))]]

advance_counter_reset(chunk_counter, page_chunks) == 0

\* chunk_counter += len(page_chunks)
advance_counter(chunk_counter, page_chunks) == chunk_counter + Len(page_chunks)

\* The loop "for page in pdf_document.pages" of chunk_document.
RECURSIVE page_loop(_, _, _, _, _)
page_loop(self, pdf_document, i, all, chunk_counter) ==
    IF i > Len(pdf_document.pages) THEN all
    ELSE LET page == pdf_document.pages[i]
             page_chunks == chunk_page(self, pdf_document.filename, page.page_number,
                                       page.sentences, chunk_counter)
         IN  page_loop(self, pdf_document, i + 1, all \o page_chunks,
                       advance_counter(chunk_counter, page_chunks))

\* chunk_document
chunk_document(self, pdf_document) == page_loop(self, pdf_document, 1, <<>>, 0)


(***************************************************************************)
(* ingestion/pdf_loader.py : PDFLoader                                     *)
(***************************************************************************)

\* Pages a document can have.
MaxPages == 2

\* core/config.py
MAX_PDF_SIZE_MB == 50

BytesPerMB == 1024 * 1024

SUPPORTED_PDF_EXTENSIONS == {<<".", "p", "d", "f">>}

\* File names that documents_dir can hold.
FileNames ==
    {<<"a", ".", "p", "d", "f">>, <<"b", ".", "p", "d", "f">>, <<"n", ".", "t", "x", "t">>}

\* The sentences of a page: an empty page, a page whose only chunk is too
\* small to keep, a page of one chunk, a page of two chunks.
PagePool == {<<>>, <<40>>, <<400>>, <<1200, 1200>>}

\* The content of a PDF file: the text of its pages.
Contents == UNION {[1..n -> PagePool] : n \in 1..MaxPages}

FileSizes == {1, MAX_PDF_SIZE_MB * BytesPerMB, MAX_PDF_SIZE_MB * BytesPerMB + 1}

\* What an extraction engine does with a file: raise, give no page, or give
\* the pages.
EngineOutcomes == {"raise", "empty", "pages"}

\* Path.suffix: the name from its last dot on
RECURSIVE LastDot(_, _)
LastDot(name, i) == IF i = 0 \/ name[i] = "." THEN i ELSE LastDot(name, i - 1)

Suffix(name) ==
    LET d == LastDot(name, Len(name)) IN
    IF d <= 1 THEN <<>> ELSE SubSeq(name, d, Len(name))

\* documents_dir.glob("*.pdf")
GlobPdf(dir) ==
    {n \in dir : Len(n) >= 4 /\ SubSeq(n, Len(n) - 3, Len(n)) = <<".", "p", "d", "f">>}

\* hashlib.sha256 over the bytes of the file
calculate_file_hash(file) == <<"sha256", file.content>>

validate_pdf_size_inclusive(name, file) ==
    IF ~file.exists THEN "not_found"
    ELSE IF Suffix(name) \notin SUPPORTED_PDF_EXTENSIONS THEN "unsupported"
    ELSE IF file.size >= MAX_PDF_SIZE_MB * BytesPerMB THEN "too_large"
    ELSE IF ~file.openable THEN "corrupt"
    ELSE "valid"

\* _validate_pdf: TRUE, or the check that failed
validate_pdf(name, file) ==
    IF ~file.exists THEN "not_found"
    ELSE IF Suffix(name) \notin SUPPORTED_PDF_EXTENSIONS THEN "unsupported"
    ELSE IF file.size > MAX_PDF_SIZE_MB * BytesPerMB THEN "too_large"
    ELSE IF ~file.openable THEN "corrupt"
    ELSE "valid"

\* The PageContent list an engine builds from the pages of the file; every
\* page remembers the engine that built it.
ExtractPages(file, engine, outcome) ==
    IF outcome = "empty" THEN <<>>
    ELSE [i \in 1..Len(file.content) |->
             [page_number |-> i, sentences |-> file.content[i], engine |-> engine]]

extraction_method_primary(primary_ok) == "pymupdf"

\* extraction_method = "pymupdf", set to "pdfplumber" before the fallback runs
extraction_method_of(primary_ok) == IF primary_ok THEN "pymupdf" ELSE "pdfplumber"

\* One call of load_pdf: doc is <<the PDFDocument>> or <<>> for None, raised
\* tells that an exception left the call, calls lists the hash computation
\* and the engines it invoked, in order.
load_pdf_run(name, file, use_fallback) ==
    IF validate_pdf(name, file) # "valid"
    THEN [doc |-> <<>>, raised |-> FALSE, calls |-> <<>>]
    ELSE IF ~file.readable
    THEN \* open(file_path, "rb") or f.read raises in _calculate_file_hash,
         \* outside every try
         [doc |-> <<>>, raised |-> TRUE, calls |-> <<"hash">>]
    ELSE
    LET file_hash == calculate_file_hash(file)
        primary_ok == file.primary # "raise"
        run_fallback == ~primary_ok /\ use_fallback
        fallback_ok == run_fallback /\ file.fallback # "raise"
        extraction_method == extraction_method_of(primary_ok)
        pages == IF primary_ok THEN ExtractPages(file, "pymupdf", file.primary)
                 ELSE ExtractPages(file, "pdfplumber", file.fallback)
        calls == <<"hash", "pymupdf">>
                     \o (IF run_fallback THEN <<"pdfplumber">> ELSE <<>>)
    IN  IF ~primary_ok /\ ~fallback_ok
        THEN [doc |-> <<>>, raised |-> FALSE, calls |-> calls]
        ELSE IF pages = <<>>
        THEN [doc |-> <<>>, raised |-> FALSE, calls |-> calls]
        ELSE [doc |-> <<[filename          |-> name,
                         total_pages       |-> Len(pages),
                         pages             |-> pages,
                         extraction_method |-> extraction_method,
                         file_hash         |-> file_hash]>>,
              raised |-> FALSE,
              calls |-> calls]

\* load_pdf: what the call returns
load_pdf(name, file, use_fallback) == load_pdf_run(name, file, use_fallback).doc

\* The files load_pdf can meet; what load_pdf does not look at is left at a
\* fixed value.
FileStates ==
    LET blank == [exists |-> TRUE, size |-> 1, openable |-> TRUE, readable |-> TRUE,
                  content |-> <<<<>>>>, primary |-> "raise", fallback |-> "raise"]
    IN  {[blank EXCEPT !.exists = FALSE], [blank EXCEPT !.openable = FALSE],
         [blank EXCEPT !.readable = FALSE]}
        \cup {[blank EXCEPT !.size = s] : s \in FileSizes}
        \cup {[blank EXCEPT !.size = s, !.content = c, !.primary = p] :
                 s \in FileSizes \ {MAX_PDF_SIZE_MB * BytesPerMB + 1},
                 c \in Contents, p \in EngineOutcomes \ {"raise"}}
        \cup {[blank EXCEPT !.content = c, !.fallback = p] :
                 c \in Contents, p \in EngineOutcomes}

(***************************************************************************)
(* ingestion/ingest.py : IngestionPipeline.process_documents               *)
(***************************************************************************)

\* IngestionPipeline.__init__: SemanticTextSplitter()
PipelineSplitter == SemanticTextSplitter(0, 0, MIN_CHUNK_SIZE)

\* d[k] = v on a dict kept as a sequence of <<key, value>> in insertion order
DictPut(d, k, v) ==
    IF \E i \in 1..Len(d) : d[i][1] = k
    THEN [i \in 1..Len(d) |-> IF d[i][1] = k THEN <<k, v>> ELSE d[i]]
    ELSE Append(d, <<k, v>>)

\* tag_chunks: every chunk's fields, in order (the metadata attached beside
\* them does not touch them)
tag_chunks(chunks) == [i \in 1..Len(chunks) |-> chunks[i]]

\* load_all_pdfs up to the loop: enumerate the directory in some order
Glob ==
    /\ in_pc = "start"
    /\ \E order \in [1..Cardinality(GlobPdf(in_dir)) -> GlobPdf(in_dir)] :
        /\ \A i, j \in DOMAIN order : i # j => order[i] # order[j]
        /\ pdf_files' = order
    /\ in_pc' = "loading"
    /\ documents' = <<>>
    /\ failed_files' = <<>>
    /\ UNCHANGED <<in_dir, chunks_by_doc, tagged_by_doc, all_chunks, in_i, gqVars, spVars, extVars>>

\* One iteration of "for pdf_file in pdf_files"
LoadPdf ==
    /\ in_pc = "loading"
    /\ pdf_files # <<>>
    /\ \E file \in FileStates :
        LET run == load_pdf_run(Head(pdf_files), file, TRUE)
            pdf_doc == run.doc
        IN  IF run.raised
            THEN \* the exception leaves load_all_pdfs and process_documents
                 in_pc' = "raised" /\ UNCHANGED <<documents, failed_files>>
            ELSE IF pdf_doc # <<>>
            THEN /\ documents' = Append(documents, pdf_doc[1])
                 /\ UNCHANGED <<failed_files, in_pc>>
            ELSE /\ failed_files' = Append(failed_files, Head(pdf_files))
                 /\ UNCHANGED <<documents, in_pc>>
    /\ pdf_files' = Tail(pdf_files)
    /\ UNCHANGED <<in_dir, chunks_by_doc, tagged_by_doc, all_chunks, in_i,
                   gqVars, spVars, extVars>>

\* load_all_pdfs returns; process_documents aborts when it got no document
LoadAllDone ==
    /\ in_pc = "loading"
    /\ pdf_files = <<>>
    /\ in_pc' = IF documents = <<>> THEN "aborted" ELSE "chunking"
    /\ in_i' = 0
    /\ UNCHANGED <<in_dir, pdf_files, documents, failed_files, chunks_by_doc,
                   tagged_by_doc, all_chunks, gqVars, spVars, extVars>>

\* Step 2, one iteration of "for doc in pdf_documents"
ChunkDocument ==
    /\ in_pc = "chunking"
    /\ in_i < Len(documents)
    /\ LET doc == documents[in_i + 1] IN
       chunks_by_doc' = DictPut(chunks_by_doc, doc.filename,
                                chunk_document(PipelineSplitter, doc))
    /\ in_i' = in_i + 1
    /\ UNCHANGED <<in_dir, in_pc, pdf_files, documents, failed_files, tagged_by_doc,
                   all_chunks, gqVars, spVars, extVars>>

ChunkingDone ==
    /\ in_pc = "chunking"
    /\ in_i = Len(documents)
    /\ in_pc' = "tagging"
    /\ in_i' = 0
    /\ UNCHANGED <<in_dir, pdf_files, documents, failed_files, chunks_by_doc,
                   tagged_by_doc, all_chunks, gqVars, spVars, extVars>>

\* Step 3, one iteration of "for filename, chunks in chunks_by_doc.items()"
TagChunks ==
    /\ in_pc = "tagging"
    /\ in_i < Len(chunks_by_doc)
    /\ LET entry == chunks_by_doc[in_i + 1] IN
       tagged_by_doc' = DictPut(tagged_by_doc, entry[1], tag_chunks(entry[2]))
    /\ in_i' = in_i + 1
    /\ UNCHANGED <<in_dir, in_pc, pdf_files, documents, failed_files, chunks_by_doc,
                   all_chunks, gqVars, spVars, extVars>>

\* Step 4: flatten tagged_chunks_by_doc.values() into the saved corpus
SaveOutput ==
    /\ in_pc = "tagging"
    /\ in_i = Len(chunks_by_doc)
    /\ all_chunks' = Concat([i \in 1..Len(tagged_by_doc) |-> tagged_by_doc[i][2]])
    /\ in_pc' = "done"
    /\ UNCHANGED <<in_dir, pdf_files, documents, failed_files, chunks_by_doc,
                   tagged_by_doc, in_i, gqVars, spVars, extVars>>

(***************************************************************************)
(* rag/vector_store.py, llm/prompts.py, rag/rag_pipeline.py : the query    *)
(* path.  A similarity is an integer number of ten-thousandths, a chunk    *)
(* text is its character count.                                            *)
(***************************************************************************)

NumChunks == 3
NumRequests == 2

Requests == 1..NumRequests

\* RAGPipeline.__init__ defaults
DEFAULT_TOP_K == 5
DEFAULT_SIMILARITY_THRESHOLD == 3000
DEFAULT_MAX_CONTEXT_CHUNKS == 3

EXCERPT_CHARS == 200

\* The rows of budget_chunks; the metadata of a row is the taxpayer group it
\* was tagged with.
StoreRows ==
    [i \in 1..NumChunks |->
        [chunk_id      |-> i,
         document_name |-> "budget.pdf",
         page_number   |-> i,
         text_len      |-> 100 * i,
         metadata      |-> IF i % 2 = 1 THEN "salaried" ELSE "farmer"]]

MinOf(a, b) == IF a <= b THEN a ELSE b

Qualifies_inclusive(rows, sims, i, match_threshold, filter_metadata) ==
    /\ (filter_metadata = <<>> \/ rows[i].metadata = filter_metadata[1])
    /\ sims[i] >= match_threshold

\* WHERE (filter_metadata = '{}' OR metadata @> filter_metadata)
\*   AND 1 - (embedding <=> query_embedding) > match_threshold
Qualifies(rows, sims, i, match_threshold, filter_metadata) ==
    /\ (filter_metadata = <<>> \/ rows[i].metadata = filter_metadata[1])
    /\ sims[i] > match_threshold

\* match_budget_chunks over the rows the scan visits: every sequence the
\* SELECT can return (rows of equal distance come in either order).
match_budget_chunks(rows, sims, match_threshold, match_count, filter_metadata, scanned) ==
    LET cands == {i \in scanned :
                     Qualifies(rows, sims, i, match_threshold, filter_metadata)}
        n == MinOf(match_count, Cardinality(cands))
        picks == {s \in [1..n -> cands] :
                     /\ \A j, k \in 1..n : j # k => s[j] # s[k]
                     /\ \A j \in 1..(n - 1) : sims[s[j]] >= sims[s[j + 1]]
                     /\ \A c \in cands :
                            (\A j \in 1..n : s[j] # c) => sims[c] <= sims[s[n]]}
    IN  {[j \in 1..n |->
             [chunk_id      |-> rows[s[j]].chunk_id,
              document_name |-> rows[s[j]].document_name,
              page_number   |-> rows[s[j]].page_number,
              text_len      |-> rows[s[j]].text_len,
              metadata      |-> rows[s[j]].metadata,
              similarity    |-> sims[s[j]]] ] : s \in picks}

\* The row sets a scan can visit: every row without the IVFFlat index, the
\* rows of the probed lists with it.
ScannedRows(rows, ivfflat) ==
    IF ivfflat THEN SUBSET (1..Len(rows)) ELSE {1..Len(rows)}

\* similarity_search: the sequences it can return; [] when the call failed
similarity_search(rows, ivfflat, sims, k, threshold, filters, call_ok) ==
    IF ~call_ok THEN {<<>>}
    ELSE UNION {match_budget_chunks(rows, sims, threshold, k, filters, scanned) :
                    scanned \in ScannedRows(rows, ivfflat)}

\* sorted(context_chunks, key=similarity, reverse=True): stable
RECURSIVE sorted_by_similarity(_)
sorted_by_similarity(chunks) ==
    IF chunks = <<>> THEN <<>>
    ELSE LET rest == sorted_by_similarity(Front(chunks))
             x == Last(chunks)
             before == SelectSeq(rest, LAMBDA c : c.similarity >= x.similarity)
             after == SelectSeq(rest, LAMBDA c : c.similarity < x.similarity)
         IN  before \o <<x>> \o after

top_chunks_untruncated(context_chunks, max_context_chunks) ==
    sorted_by_similarity(context_chunks)

\* sorted(...)[:self.max_context_chunks]
top_chunks_of(context_chunks, max_context_chunks) ==
    LET ranked == sorted_by_similarity(context_chunks)
    IN  SubSeq(ranked, 1, MinOf(max_context_chunks, Len(ranked)))

\* create_rag_prompt: the prompt carries one [Source: document, Page n] block
\* with the text of every context chunk, in order
create_rag_prompt(context_chunks) ==
    [kind |-> "rag",
     context |-> [j \in 1..Len(context_chunks) |->
                     [document_name |-> context_chunks[j].document_name,
                      page_number   |-> context_chunks[j].page_number,
                      text_len      |-> context_chunks[j].text_len]]]

create_no_context_prompt == [kind |-> "no_context", context |-> <<>>]

user_prompt_always_rag(chunks) == create_rag_prompt(chunks)

\* "if top_chunks: create_rag_prompt else: create_no_context_prompt"
user_prompt_of(chunks) ==
    IF chunks # <<>> THEN create_rag_prompt(chunks) ELSE create_no_context_prompt

\* round(similarity, 3), in thousandths
round3(similarity) == (similarity + 5) \div 10

\* format_response_with_sources
format_response_with_sources(response, sources) ==
    [answer |-> response,
     sources |-> [j \in 1..Len(sources) |->
                     [document   |-> sources[j].document_name,
                      page       |-> sources[j].page_number,
                      similarity |-> round3(sources[j].similarity),
                      excerpt    |-> [chars |-> MinOf(EXCERPT_CHARS, sources[j].text_len),
                                      ellipsis |-> sources[j].text_len > EXCERPT_CHARS]]]]

\* generate, given what chat_completion returned
generate(context_chunks, max_context_chunks, response_text) ==
    LET top_chunks == top_chunks_of(context_chunks, max_context_chunks)
    IN  [top_chunks |-> top_chunks,
         prompt |-> user_prompt_of(top_chunks),
         response |-> format_response_with_sources(response_text, top_chunks)]

\* What chat_completion can hand back to generate
CompletionResults == {ServiceText, fallback_response}

chunks_slot_shared(r) == 1

\* "chunks" is a local variable of query(): one slot per request
chunks_slot(r) == r

\* query(), first half of retrieve: self.embedder.generate_embedding(query)
EmbedQuery(r) ==
    /\ r \in rq_active
    /\ rq_pc[r] = "start"
    /\ rq_embeds' = [rq_embeds EXCEPT ![r] = @ + 1]
    /\ rq_pc' = [rq_pc EXCEPT ![r] = "embedded"]
    /\ UNCHANGED <<vs_rows, vs_ivfflat, rp_top_k, rp_threshold, rp_max_context,
                   rq_active, rq_sims, rq_filter, rq_searches, rq_found, rq_chunks,
                   rq_generated, gqVars, spVars, inVars, ssVars, tgVars, qsVars, cdVars, ldVars, sgVars, upVars, emVars>>

\* query(), second half of retrieve: self.vector_store.similarity_search(...)
SearchStore(r) ==
    /\ r \in rq_active
    /\ rq_pc[r] = "embedded"
    /\ \E call_ok \in BOOLEAN :
       \E results \in similarity_search(vs_rows, vs_ivfflat, rq_sims[r], rp_top_k,
                                        rp_threshold, rq_filter[r], call_ok) :
           /\ rq_found' = [rq_found EXCEPT ![r] = [call_ok |-> call_ok, results |-> results]]
           /\ rq_chunks' = [rq_chunks EXCEPT ![chunks_slot(r)] = results]
    /\ rq_searches' = [rq_searches EXCEPT ![r] = @ + 1]
    /\ rq_pc' = [rq_pc EXCEPT ![r] = "retrieved"]
    /\ UNCHANGED <<vs_rows, vs_ivfflat, rp_top_k, rp_threshold, rp_max_context,
                   rq_active, rq_sims, rq_filter, rq_embeds, rq_generated,
                   gqVars, spVars, inVars, ssVars, tgVars, qsVars, cdVars, ldVars, sgVars, upVars, emVars>>

\* query(), generate: rank, build the prompt, call the service, cite
Generate(r) ==
    /\ r \in rq_active
    /\ rq_pc[r] = "retrieved"
    /\ \E response_text \in CompletionResults :
           rq_generated' = [rq_generated EXCEPT ![r] =
               <<generate(rq_chunks[chunks_slot(r)], rp_max_context, response_text)>>]
    /\ rq_pc' = [rq_pc EXCEPT ![r] = "done"]
    /\ UNCHANGED <<vs_rows, vs_ivfflat, rp_top_k, rp_threshold, rp_max_context,
                   rq_active, rq_sims, rq_filter, rq_embeds, rq_searches, rq_found,
                   rq_chunks, gqVars, spVars, inVars, ssVars, tgVars, qsVars, cdVars, ldVars, sgVars, upVars, emVars>>

(***************************************************************************)
(* rag/rag_pipeline.py : get_rag_pipeline, llm/groq_client.py :            *)
(* get_groq_client.  Threads call the two accessors; a call is a frame on  *)
(* the stack of its thread, RAGPipeline.__init__ calls get_groq_client.    *)
(***************************************************************************)

NumThreads == 2
MaxCalls == 3

Threads == 1..NumThreads
Accessors == {"rag", "groq"}

\* The module-level variable an accessor guards
Global(fn) == IF fn = "rag" THEN sg_rag_pipeline ELSE sg_groq_client

NeedsInit_always(instance) == TRUE

\* "if _rag_pipeline is None" / "if _groq_client is None"
NeedsInit(instance) == instance = <<>>

\* An initialisation of fn is under way in some thread
Initialising(fn) ==
    \E t \in Threads : \E i \in 1..Len(sg_stack[t]) :
        /\ sg_stack[t][i].fn = fn
        /\ sg_stack[t][i].pc \in {"construct", "wait", "assign"}

\* fn is initialised and no initialisation of it is under way
Quiescent(fn) == Global(fn) # <<>> /\ ~Initialising(fn)

NewFrame(fn) ==
    [fn |-> fn, pc |-> "check", inst |-> 0, quiet |-> Quiescent(fn), built |-> FALSE]

SetTop(t, frame) == [sg_stack EXCEPT ![t] = Append(Front(@), frame)]

\* A thread enters get_rag_pipeline() or get_groq_client()
StartCall(t, fn) ==
    /\ sg_stack[t] = <<>>
    /\ sg_calls < MaxCalls
    /\ sg_calls' = sg_calls + 1
    /\ sg_stack' = [sg_stack EXCEPT ![t] = <<NewFrame(fn)>>]
    /\ UNCHANGED <<sg_rag_pipeline, sg_groq_client, sg_pipelines, sg_clients,
                   sg_returns, gqVars, spVars, inVars, ssVars, tgVars, qsVars, cdVars, ldVars, rqVars, upVars, emVars>>

\* The "is None" test of the accessor
CheckNone(t) ==
    /\ sg_stack[t] # <<>>
    /\ LET top == Last(sg_stack[t]) IN
       /\ top.pc = "check"
       /\ sg_stack' = SetTop(t, IF NeedsInit(Global(top.fn))
                                THEN [top EXCEPT !.pc = "construct", !.built = TRUE]
                                ELSE [top EXCEPT !.pc = "return"])
    /\ UNCHANGED <<sg_rag_pipeline, sg_groq_client, sg_pipelines, sg_clients,
                   sg_calls, sg_returns, gqVars, spVars, inVars, ssVars, tgVars, qsVars, cdVars, ldVars, rqVars, upVars, emVars>>

\* GroqClient(): the constructor runs to its end
ConstructGroq(t) ==
    /\ sg_stack[t] # <<>>
    /\ LET top == Last(sg_stack[t]) IN
       /\ top.pc = "construct"
       /\ top.fn = "groq"
       /\ sg_clients' = sg_clients + 1
       /\ sg_stack' = SetTop(t, [top EXCEPT !.pc = "assign", !.inst = sg_clients + 1])
    /\ UNCHANGED <<sg_rag_pipeline, sg_groq_client, sg_pipelines, sg_calls,
                   sg_returns, gqVars, spVars, inVars, ssVars, tgVars, qsVars, cdVars, ldVars, rqVars, upVars, emVars>>

\* RAGPipeline(): the constructor runs up to "self.llm = get_groq_client()"
ConstructRagBegin(t) ==
    /\ sg_stack[t] # <<>>
    /\ LET top == Last(sg_stack[t]) IN
       /\ top.pc = "construct"
       /\ top.fn = "rag"
       /\ sg_pipelines' = Append(sg_pipelines, [ready |-> FALSE, llm |-> <<>>])
       /\ sg_stack' = [sg_stack EXCEPT ![t] =
              Append(Front(@), [top EXCEPT !.pc = "wait", !.inst = Len(sg_pipelines) + 1])
                  \o <<NewFrame("groq")>>]
    /\ UNCHANGED <<sg_rag_pipeline, sg_groq_client, sg_clients, sg_calls,
                   sg_returns, gqVars, spVars, inVars, ssVars, tgVars, qsVars, cdVars, ldVars, rqVars, upVars, emVars>>

\* "_rag_pipeline = RAGPipeline()" / "_groq_client = GroqClient()": the store
AssignGlobal(t) ==
    /\ sg_stack[t] # <<>>
    /\ LET top == Last(sg_stack[t]) IN
       /\ top.pc = "assign"
       /\ IF top.fn = "rag"
          THEN sg_rag_pipeline' = <<top.inst>> /\ UNCHANGED sg_groq_client
          ELSE sg_groq_client' = <<top.inst>> /\ UNCHANGED sg_rag_pipeline
       /\ sg_stack' = SetTop(t, [top EXCEPT !.pc = "return"])
    /\ UNCHANGED <<sg_pipelines, sg_clients, sg_calls, sg_returns,
                   gqVars, spVars, inVars, ssVars, tgVars, qsVars, cdVars, ldVars, rqVars, upVars, emVars>>

\* "return _rag_pipeline" / "return _groq_client" to the caller of the thread
ReturnToCaller(t) ==
    /\ Len(sg_stack[t]) = 1
    /\ LET top == Last(sg_stack[t]) IN
       /\ top.pc = "return"
       /\ sg_returns' = sg_returns \cup
              {[fn |-> top.fn, value |-> Global(top.fn),
                quiet |-> top.quiet, built |-> top.built]}
       /\ sg_stack' = [sg_stack EXCEPT ![t] = <<>>]
    /\ UNCHANGED <<sg_rag_pipeline, sg_groq_client, sg_pipelines, sg_clients,
                   sg_calls, gqVars, spVars, inVars, ssVars, tgVars, qsVars, cdVars, ldVars, rqVars, upVars, emVars>>

\* "return _groq_client" into RAGPipeline.__init__, which then finishes
ReturnToConstructor(t) ==
    /\ Len(sg_stack[t]) = 2
    /\ LET top == Last(sg_stack[t])
           ctor == sg_stack[t][1]
       IN
       /\ top.pc = "return"
       /\ sg_pipelines' = [sg_pipelines EXCEPT ![ctor.inst] =
                              [ready |-> TRUE, llm |-> Global(top.fn)]]
       /\ sg_stack' = [sg_stack EXCEPT ![t] = <<[ctor EXCEPT !.pc = "assign"]>>]
    /\ UNCHANGED <<sg_rag_pipeline, sg_groq_client, sg_clients, sg_calls,
                   sg_returns, gqVars, spVars, inVars, ssVars, tgVars, qsVars, cdVars, ldVars, rqVars, upVars, emVars>>

(***************************************************************************)
(* rag/vector_store.py : SupabaseVectorStore.upload_chunks_batch, called   *)
(* by scripts/upload_to_supabase_local.py.  An embedding is modelled by    *)
(* its length.                                                             *)
(***************************************************************************)

MaxUpload == 3

VECTOR_DIMENSION == 384
SCHEMA_DIMENSION == 1536
UPLOAD_BATCH_SIZE == 100

BatchAt_single(chunks, i, batch_size) ==
    SubSeq(chunks, i + 1, MinOf(i + 1, Len(chunks)))

\* chunks[i:i + batch_size]
BatchAt(chunks, i, batch_size) ==
    SubSeq(chunks, i + 1, MinOf(i + batch_size, Len(chunks)))

\* The upsert of a batch is one statement: the table takes all its rows, or
\* rejects it when an embedding does not have the length of the column.
upsert_accepts(batch, table_dim) ==
    \A j \in 1..Len(batch) : batch[j].embedding_len = table_dim

\* One iteration of "for i in range(0, len(chunks), batch_size)"
UploadBatch ==
    /\ up_pc = "loop"
    /\ up_i < Len(up_chunks)
    /\ LET batch == BatchAt(up_chunks, up_i, up_batch_size) IN
       \E call_ok \in BOOLEAN :
           LET ok == call_ok /\ upsert_accepts(batch, up_table_dim) IN
           /\ up_rows' = IF ok THEN up_rows \o batch ELSE up_rows
           /\ up_success' = IF ok THEN up_success + Len(batch) ELSE up_success
           /\ up_failed' = IF ok THEN up_failed ELSE up_failed + Len(batch)
           /\ up_batches' = Append(up_batches, [start |-> up_i, chunks |-> batch, ok |-> ok])
    /\ up_i' = up_i + up_batch_size
    /\ UNCHANGED <<up_chunks, up_batch_size, up_table_dim, up_pc, up_stats,
                   gqVars, spVars, inVars, ssVars, tgVars, qsVars, cdVars, ldVars, rqVars, sgVars, emVars>>

\* The loop is over: upload_chunks_batch returns its statistics and
\* upload_to_supabase reports success when nothing failed
UploadReturn ==
    /\ up_pc = "loop"
    /\ up_i >= Len(up_chunks)
    /\ up_stats' = <<[total |-> Len(up_chunks), success |-> up_success,
                      failed |-> up_failed, result |-> (up_failed = 0)]>>
    /\ up_pc' = "done"
    /\ UNCHANGED <<up_chunks, up_batch_size, up_table_dim, up_i, up_success,
                   up_failed, up_rows, up_batches,
                   gqVars, spVars, inVars, ssVars, tgVars, qsVars, cdVars, ldVars, rqVars, sgVars, emVars>>

(***************************************************************************)
(* rag/embeddings_local.py : LocalEmbeddingGenerator, rag/embeddings.py :  *)
(* EmbeddingGenerator.  A text is modelled by whether the model can encode *)
(* it, an embedding by its length and whether it is the all-zero vector.   *)
(***************************************************************************)

MaxEmbed == 3

LOCAL_DIMENSION == 384
OPENAI_DIMENSION == 1536
LOCAL_BATCH_SIZE == 32
OPENAI_BATCH_SIZE == 100

Embedders == {"local", "openai"}

\* self.dimension
dimension_of(embedder) == IF embedder = "local" THEN LOCAL_DIMENSION ELSE OPENAI_DIMENSION

\* [0.0] * self.dimension
zero_vector(embedder) == [len |-> dimension_of(embedder), zero |-> TRUE]

\* What the model answers for a text it can encode
real_vector(embedder) == [len |-> dimension_of(embedder), zero |-> FALSE]

\* One call of the model on a list of texts: it raises when it cannot encode
\* one of them
EncodeFails(texts) == \E j \in 1..Len(texts) : ~texts[j]

\* LocalEmbeddingGenerator.generate_embeddings_batch: one encode call for
\* all the texts inside one try
local_generate_embeddings_batch(texts) ==
    IF EncodeFails(texts)
    THEN [j \in 1..Len(texts) |-> zero_vector("local")]
    ELSE [j \in 1..Len(texts) |-> real_vector("local")]

\* EmbeddingGenerator.generate_embeddings_batch, the loop from offset i on:
\* one API call per batch, each inside its own try
RECURSIVE openai_batches(_, _, _)
openai_batches(texts, i, batch_size) ==
    IF i >= Len(texts) THEN <<>>
    ELSE LET batch == SubSeq(texts, i + 1, MinOf(i + batch_size, Len(texts)))
             batch_embeddings ==
                 IF EncodeFails(batch)
                 THEN [j \in 1..Len(batch) |-> zero_vector("openai")]
                 ELSE [j \in 1..Len(batch) |-> real_vector("openai")]
         IN  batch_embeddings \o openai_batches(texts, i + batch_size, batch_size)

\* generate_embeddings_batch of either generator; the success_rate logged by
\* the OpenAI one divides by len(embeddings)
generate_embeddings_batch(embedder, texts, batch_size) ==
    IF embedder = "local"
    THEN [raised |-> FALSE, embeddings |-> local_generate_embeddings_batch(texts)]
    ELSE IF texts = <<>>
    THEN [raised |-> TRUE, embeddings |-> <<>>]
    ELSE [raised |-> FALSE, embeddings |-> openai_batches(texts, 0, batch_size)]

\* "for chunk, embedding in zip(chunks, embeddings)"
zip_embeddings(chunks, embeddings, embedder) ==
    [j \in 1..MinOf(Len(chunks), Len(embeddings)) |->
        [chunk_id            |-> chunks[j].chunk_id,
         encodable           |-> chunks[j].encodable,
         embedding           |-> embeddings[j],
         embedding_dimension |-> dimension_of(embedder)]]

\* embed_chunks
embed_chunks(embedder, chunks, batch_size) ==
    LET texts == [j \in 1..Len(chunks) |-> chunks[j].encodable]
        run == generate_embeddings_batch(embedder, texts, batch_size)
    IN  IF run.raised THEN [raised |-> TRUE, chunks |-> <<>>]
        ELSE [raised |-> FALSE,
              chunks |-> zip_embeddings(chunks, run.embeddings, embedder)]

\* One call of embed_chunks
EmbedChunks ==
    /\ em_pc = "ready"
    /\ LET run == embed_chunks(em_embedder, em_chunks, em_batch_size) IN
       /\ em_out' = run.chunks
       /\ em_pc' = IF run.raised THEN "raised" ELSE "done"
    /\ UNCHANGED <<em_embedder, em_chunks, em_batch_size,
                   gqVars, spVars, inVars, ssVars, tgVars, qsVars, cdVars, ldVars, rqVars, sgVars, upVars>>

(***************************************************************************)
(* ingestion/text_splitter.py : _calculate_quality_score.  A text is       *)
(* modelled by what the score reads of it: its words, given as groups of   *)
(* "count" equal words of "alpha" letters, "digit" digits and "other"      *)
(* further characters each, single spaces between the words, and "pad"     *)
(* more whitespace characters around them.  Scores are exact integers in   *)
(* ten-thousandths until they are rounded, then thousandths.               *)
(***************************************************************************)

SCORE_ONE == 10000

\* len(text.split())
word_count(text) ==
    SumSeq([i \in 1..Len(text.groups) |-> text.groups[i].count])

\* sum(len(w) for w in words)
word_chars(text) ==
    SumSeq([i \in 1..Len(text.groups) |->
               text.groups[i].count
                   * (text.groups[i].alpha + text.groups[i].digit + text.groups[i].other)])

\* len(text)
text_len(text) ==
    text.pad + word_chars(text) + (IF word_count(text) > 0 THEN word_count(text) - 1 ELSE 0)

\* sum(1 for c in text if c.isalpha())
alpha_chars(text) ==
    SumSeq([i \in 1..Len(text.groups) |-> text.groups[i].count * text.groups[i].alpha])

\* any(c.isdigit() for c in text)
has_numbers(text) ==
    \E i \in 1..Len(text.groups) : text.groups[i].count > 0 /\ text.groups[i].digit > 0

\* score *= n / 10
times_tenths(score, n) == (score * n) \div 10

\* 1. Length penalty/bonus
length_factor(score, text) ==
    IF word_count(text) < 20 THEN times_tenths(score, 5)
    ELSE IF word_count(text) < 50 THEN times_tenths(score, 8)
    ELSE IF word_count(text) > 600 THEN times_tenths(score, 9)
    ELSE score

\* 2. Alphabetic content: alpha_chars / len(text) < 0.4
alpha_factor(score, text) ==
    IF 10 * alpha_chars(text) < 4 * text_len(text) THEN times_tenths(score, 6) ELSE score

number_bonus_uncapped(score, text) ==
    IF has_numbers(text) THEN times_tenths(score, 11) ELSE score

\* 3. Has numbers: score = min(1.0, score * 1.1)
number_bonus(score, text) ==
    IF has_numbers(text) THEN MinOf(SCORE_ONE, times_tenths(score, 11)) ELSE score

\* 4. Average word length, only when the text has words
word_length_factor(score, text) ==
    IF /\ word_count(text) > 0
       /\ \/ word_chars(text) < 2 * word_count(text)
          \/ word_chars(text) > 20 * word_count(text)
    THEN times_tenths(score, 7)
    ELSE score

\* min(1.0, max(0.0, score))
clamp_score(score) ==
    MinOf(SCORE_ONE, IF score < 0 THEN 0 ELSE score)

\* round(score, 3): ten-thousandths to thousandths, a half goes to the even
\* neighbour
round_score(score) ==
    LET q == score \div 10
        r == score % 10
    IN  IF r > 5 \/ (r = 5 /\ q % 2 = 1) THEN q + 1 ELSE q

\* _calculate_quality_score, in thousandths
calculate_quality_score(text) ==
    IF text_len(text) = 0 THEN 0
    ELSE round_score(clamp_score(
             word_length_factor(
                 number_bonus(
                     alpha_factor(
                         length_factor(SCORE_ONE, text), text), text), text)))

text_chunk_by_position(document_name, page_number, chunk_index, chunk_text) ==
    [chunk_id      |-> chunk_id(document_name, page_number, chunk_index),
     document_name |-> document_name,
     page_number   |-> page_number,
     chunk_index   |-> chunk_index,
     text          |-> chunk_text,
     char_count    |-> text_len(chunk_text),
     word_count    |-> word_count(chunk_text),
     token_count   |-> estimate_tokens(text_len(chunk_text)),
     quality_score |-> IF chunk_index = 0 THEN calculate_quality_score(chunk_text)
                       ELSE 0]

\* chunk_page: TextChunk(chunk_id=..., ..., quality_score=...)
text_chunk(document_name, page_number, chunk_index, chunk_text) ==
    [chunk_id      |-> chunk_id(document_name, page_number, chunk_index),
     document_name |-> document_name,
     page_number   |-> page_number,
     chunk_index   |-> chunk_index,
     text          |-> chunk_text,
     char_count    |-> text_len(chunk_text),
     word_count    |-> word_count(chunk_text),
     token_count   |-> estimate_tokens(text_len(chunk_text)),
     quality_score |-> calculate_quality_score(chunk_text)]

\* One TextChunk is built around the text, at some place of some document.
BuildChunk(document_name, page_number, chunk_index) ==
    /\ qs_built' = qs_built \cup
                      {text_chunk(document_name, page_number, chunk_index, qs_text)}
    /\ qs_built' # qs_built
    /\ UNCHANGED <<qs_text, gqVars, spVars, inVars, ssVars, tgVars, cdVars, ldVars, rqVars, sgVars,
                   upVars, emVars>>

(***************************************************************************)
(* ingestion/metadata_tagger.py : MetadataTagger.  Texts, keywords and     *)
(* category names are sequences of characters.                             *)
(***************************************************************************)

ascii_lowercase ==
    <<"a", "b", "c", "d", "e", "f", "g", "h", "i", "j", "k", "l", "m", "n", "o", "p",
      "q", "r", "s", "t", "u", "v", "w", "x", "y", "z">>

ascii_uppercase ==
    <<"A", "B", "C", "D", "E", "F", "G", "H", "I", "J", "K", "L", "M", "N", "O", "P",
      "Q", "R", "S", "T", "U", "V", "W", "X", "Y", "Z">>

digits == {"0", "1", "2", "3", "4", "5", "6", "7", "8", "9"}

\* The characters of the texts in the order of their code points.
CodePointOrder ==
    <<" ", "!", "'", "+", ",", "-", ".", "0", "1", "2", "3", "4", "5", "6", "7", "8",
      "9", ";", "A", "B", "C", "D", "E", "F", "G", "H", "I", "J", "K", "L", "M", "N",
      "O", "P", "Q", "R", "S", "T", "U", "V", "W", "X", "Y", "Z", "_", "a", "b", "c",
      "d", "e", "f", "g", "h", "i", "j", "k", "l", "m", "n", "o", "p", "q", "r", "s",
      "t", "u", "v", "w", "x", "y", "z">>

\* The rank of ord(c) among the characters of CodePointOrder.
ord(c) == CHOOSE i \in 1..Len(CodePointOrder) : CodePointOrder[i] = c

\* str.lower() on one character
lower_char(c) ==
    IF \E i \in 1..26 : ascii_uppercase[i] = c
    THEN ascii_lowercase[CHOOSE i \in 1..26 : ascii_uppercase[i] = c]
    ELSE c

\* str.upper() on one character
upper_char(c) ==
    IF \E i \in 1..26 : ascii_lowercase[i] = c
    THEN ascii_uppercase[CHOOSE i \in 1..26 : ascii_lowercase[i] = c]
    ELSE c

\* text.lower()
lower(text) == [i \in 1..Len(text) |-> lower_char(text[i])]

is_lower(c) == \E i \in 1..26 : ascii_lowercase[i] = c

is_letter(c) == is_lower(c) \/ (\E i \in 1..26 : ascii_uppercase[i] = c)

\* the regular-expression class \w
is_word_char(c) == is_letter(c) \/ c \in digits \/ c = "_"

\* keyword in text
str_in(keyword, text) ==
    \E start \in 0..(Len(text) - Len(keyword)) :
        \A j \in 1..Len(keyword) : text[start + j] = keyword[j]

\* a < b for strings
str_less(a, b) ==
    \E i \in 1..(Len(a) + 1) :
        /\ i <= Len(b)
        /\ \A j \in 1..(i - 1) : a[j] = b[j]
        /\ i = Len(a) + 1 \/ ord(a[i]) < ord(b[i])

topic_hierarchy ==
    <<
      [topic |-> <<"t", "a", "x">>,
       entry |-> [main |-> <<"T", "a", "x", "a", "t", "i", "o", "n">>,
                  sub |-> <<"T", "a", "x", " ", "P", "o", "l", "i", "c", "y">>]],
      [topic |-> <<"i", "n", "c", "o", "m", "e", "_", "t", "a", "x">>,
       entry |-> [main |-> <<"T", "a", "x", "a", "t", "i", "o", "n">>,
                  sub |-> <<"I", "n", "c", "o", "m", "e", " ", "T", "a", "x">>,
                  section |-> <<"P", "e", "r", "s", "o", "n", "a", "l", " ", "T", "a", "x">>]],
      [topic |-> <<"g", "s", "t">>,
       entry |-> [main |-> <<"T", "a", "x", "a", "t", "i", "o", "n">>,
                  sub |-> <<"G", "S", "T">>]],
      [topic |-> <<"h", "e", "a", "l", "t", "h", "c", "a", "r", "e">>,
       entry |-> [main |-> <<"S", "o", "c", "i", "a", "l", " ", "W", "e", "l", "f", "a", "r", "e">>,
                  sub |-> <<"H", "e", "a", "l", "t", "h", "c", "a", "r", "e">>]],
      [topic |-> <<"e", "d", "u", "c", "a", "t", "i", "o", "n">>,
       entry |-> [main |-> <<"S", "o", "c", "i", "a", "l", " ", "W", "e", "l", "f", "a", "r", "e">>,
                  sub |-> <<"E", "d", "u", "c", "a", "t", "i", "o", "n">>]],
      [topic |-> <<"d", "e", "f", "e", "n", "s", "e">>,
       entry |-> [main |-> <<"N", "a", "t", "i", "o", "n", "a", "l", " ", "S", "e", "c", "u", "r", "i", "t", "y">>,
                  sub |-> <<"D", "e", "f", "e", "n", "s", "e">>]],
      [topic |-> <<"a", "g", "r", "i", "c", "u", "l", "t", "u", "r", "e">>,
       entry |-> [main |-> <<"E", "c", "o", "n", "o", "m", "i", "c", " ", "D", "e", "v", "e", "l", "o", "p", "m", "e", "n", "t">>,
                  sub |-> <<"A", "g", "r", "i", "c", "u", "l", "t", "u", "r", "e">>]],
      [topic |-> <<"i", "n", "f", "r", "a", "s", "t", "r", "u", "c", "t", "u", "r", "e">>,
       entry |-> [main |-> <<"E", "c", "o", "n", "o", "m", "i", "c", " ", "D", "e", "v", "e", "l", "o", "p", "m", "e", "n", "t">>,
                  sub |-> <<"I", "n", "f", "r", "a", "s", "t", "r", "u", "c", "t", "u", "r", "e">>]],
      [topic |-> <<"e", "m", "p", "l", "o", "y", "m", "e", "n", "t">>,
       entry |-> [main |-> <<"E", "c", "o", "n", "o", "m", "i", "c", " ", "D", "e", "v", "e", "l", "o", "p", "m", "e", "n", "t">>,
                  sub |-> <<"E", "m", "p", "l", "o", "y", "m", "e", "n", "t">>]],
      [topic |-> <<"f", "i", "n", "a", "n", "c", "e">>,
       entry |-> [main |-> <<"E", "c", "o", "n", "o", "m", "i", "c", " ", "P", "o", "l", "i", "c", "y">>,
                  sub |-> <<"F", "i", "n", "a", "n", "c", "e">>]],
      [topic |-> <<"s", "o", "c", "i", "a", "l", "_", "w", "e", "l", "f", "a", "r", "e">>,
       entry |-> [main |-> <<"S", "o", "c", "i", "a", "l", " ", "W", "e", "l", "f", "a", "r", "e">>,
                  sub |-> <<"G", "e", "n", "e", "r", "a", "l", " ", "W", "e", "l", "f", "a", "r", "e">>]],
      [topic |-> <<"e", "n", "e", "r", "g", "y">>,
       entry |-> [main |-> <<"E", "c", "o", "n", "o", "m", "i", "c", " ", "D", "e", "v", "e", "l", "o", "p", "m", "e", "n", "t">>,
                  sub |-> <<"E", "n", "e", "r", "g", "y">>]],
      [topic |-> <<"d", "i", "g", "i", "t", "a", "l">>,
       entry |-> [main |-> <<"T", "e", "c", "h", "n", "o", "l", "o", "g", "y">>,
                  sub |-> <<"D", "i", "g", "i", "t", "a", "l", " ", "I", "n", "f", "r", "a", "s", "t", "r", "u", "c", "t", "u", "r", "e">>]],
      [topic |-> <<"m", "s", "m", "e">>,
       entry |-> [main |-> <<"E", "c", "o", "n", "o", "m", "i", "c", " ", "D", "e", "v", "e", "l", "o", "p", "m", "e", "n", "t">>,
                  sub |-> <<"M", "S", "M", "E">>]]
    >>

normalized_income_ranges ==
    <<<<"0", "-", "5", "L">>, <<"5", "-", "1", "0", "L">>, <<"1", "0", "-", "1", "5", "L">>, <<"1", "5", "L", "+">>>>

topic_keywords ==
    <<
      [category |-> <<"t", "a", "x">>,
       keywords |-> <<<<"t", "a", "x">>, <<"t", "a", "x", "a", "t", "i", "o", "n">>,
                      <<"i", "n", "c", "o", "m", "e", " ", "t", "a", "x">>,
                      <<"g", "s", "t">>, <<"c", "u", "s", "t", "o", "m", "s">>,
                      <<"e", "x", "c", "i", "s", "e">>, <<"d", "u", "t", "y">>,
                      <<"c", "e", "s", "s">>,
                      <<"s", "u", "r", "c", "h", "a", "r", "g", "e">>,
                      <<"r", "e", "b", "a", "t", "e">>,
                      <<"d", "e", "d", "u", "c", "t", "i", "o", "n">>,
                      <<"e", "x", "e", "m", "p", "t", "i", "o", "n">>,
                      <<"s", "e", "c", "t", "i", "o", "n", " ", "8", "0">>,
                      <<"t", "d", "s">>, <<"t", "c", "s">>>>],
      [category |-> <<"h", "e", "a", "l", "t", "h", "c", "a", "r", "e">>,
       keywords |-> <<<<"h", "e", "a", "l", "t", "h">>,
                      <<"m", "e", "d", "i", "c", "a", "l">>,
                      <<"h", "o", "s", "p", "i", "t", "a", "l">>,
                      <<"a", "y", "u", "s", "h", "m", "a", "n">>,
                      <<"m", "e", "d", "i", "c", "i", "n", "e">>,
                      <<"d", "o", "c", "t", "o", "r">>,
                      <<"t", "r", "e", "a", "t", "m", "e", "n", "t">>,
                      <<"i", "n", "s", "u", "r", "a", "n", "c", "e">>,
                      <<"w", "e", "l", "l", "n", "e", "s", "s">>,
                      <<"d", "i", "s", "e", "a", "s", "e">>,
                      <<"v", "a", "c", "c", "i", "n", "e">>>>],
      [category |-> <<"e", "d", "u", "c", "a", "t", "i", "o", "n">>,
       keywords |-> <<<<"e", "d", "u", "c", "a", "t", "i", "o", "n">>,
                      <<"s", "c", "h", "o", "o", "l">>,
                      <<"u", "n", "i", "v", "e", "r", "s", "i", "t", "y">>,
                      <<"s", "t", "u", "d", "e", "n", "t">>,
                      <<"s", "c", "h", "o", "l", "a", "r", "s", "h", "i", "p">>,
                      <<"l", "e", "a", "r", "n", "i", "n", "g">>,
                      <<"s", "k", "i", "l", "l">>,
                      <<"t", "r", "a", "i", "n", "i", "n", "g">>,
                      <<"r", "e", "s", "e", "a", "r", "c", "h">>,
                      <<"a", "c", "a", "d", "e", "m", "i", "c">>>>],
      [category |-> <<"d", "e", "f", "e", "n", "s", "e">>,
       keywords |-> <<<<"d", "e", "f", "e", "n", "s", "e">>,
                      <<"d", "e", "f", "e", "n", "c", "e">>,
                      <<"m", "i", "l", "i", "t", "a", "r", "y">>, <<"a", "r", "m", "y">>,
                      <<"n", "a", "v", "y">>,
                      <<"a", "i", "r", " ", "f", "o", "r", "c", "e">>,
                      <<"s", "e", "c", "u", "r", "i", "t", "y">>,
                      <<"b", "o", "r", "d", "e", "r">>, <<"w", "e", "a", "p", "o", "n">>,
                      <<"s", "o", "l", "d", "i", "e", "r">>>>],
      [category |-> <<"a", "g", "r", "i", "c", "u", "l", "t", "u", "r", "e">>,
       keywords |-> <<<<"a", "g", "r", "i", "c", "u", "l", "t", "u", "r", "e">>,
                      <<"f", "a", "r", "m", "e", "r">>, <<"c", "r", "o", "p">>,
                      <<"f", "a", "r", "m", "i", "n", "g">>,
                      <<"i", "r", "r", "i", "g", "a", "t", "i", "o", "n">>,
                      <<"f", "e", "r", "t", "i", "l", "i", "z", "e", "r">>,
                      <<"s", "e", "e", "d">>, <<"r", "u", "r", "a", "l">>,
                      <<"k", "i", "s", "a", "n">>, <<"m", "a", "n", "d", "i">>,
                      <<"m", "i", "n", "i", "m", "u", "m", " ", "s", "u", "p", "p", "o", "r", "t", " ", "p", "r", "i", "c", "e">>,
                      <<"m", "s", "p">>>>],
      [category |-> <<"i", "n", "f", "r", "a", "s", "t", "r", "u", "c", "t", "u", "r", "e">>,
       keywords |-> <<<<"i", "n", "f", "r", "a", "s", "t", "r", "u", "c", "t", "u", "r", "e">>,
                      <<"r", "o", "a", "d">>, <<"h", "i", "g", "h", "w", "a", "y">>,
                      <<"r", "a", "i", "l", "w", "a", "y">>, <<"m", "e", "t", "r", "o">>,
                      <<"a", "i", "r", "p", "o", "r", "t">>, <<"p", "o", "r", "t">>,
                      <<"b", "r", "i", "d", "g", "e">>,
                      <<"c", "o", "n", "s", "t", "r", "u", "c", "t", "i", "o", "n">>,
                      <<"u", "r", "b", "a", "n", " ", "d", "e", "v", "e", "l", "o", "p", "m", "e", "n", "t">>>>],
      [category |-> <<"e", "m", "p", "l", "o", "y", "m", "e", "n", "t">>,
       keywords |-> <<<<"e", "m", "p", "l", "o", "y", "m", "e", "n", "t">>,
                      <<"j", "o", "b">>,
                      <<"u", "n", "e", "m", "p", "l", "o", "y", "m", "e", "n", "t">>,
                      <<"w", "a", "g", "e">>, <<"s", "a", "l", "a", "r", "y">>,
                      <<"e", "p", "f">>,
                      <<"p", "r", "o", "v", "i", "d", "e", "n", "t", " ", "f", "u", "n", "d">>,
                      <<"p", "e", "n", "s", "i", "o", "n">>,
                      <<"r", "e", "t", "i", "r", "e", "m", "e", "n", "t">>,
                      <<"e", "m", "p", "l", "o", "y", "e", "e">>>>],
      [category |-> <<"f", "i", "n", "a", "n", "c", "e">>,
       keywords |-> <<<<"f", "i", "n", "a", "n", "c", "e">>,
                      <<"b", "a", "n", "k", "i", "n", "g">>, <<"l", "o", "a", "n">>,
                      <<"c", "r", "e", "d", "i", "t">>, <<"d", "e", "b", "t">>,
                      <<"f", "i", "s", "c", "a", "l">>,
                      <<"m", "o", "n", "e", "t", "a", "r", "y">>,
                      <<"r", "e", "s", "e", "r", "v", "e", " ", "b", "a", "n", "k">>,
                      <<"r", "b", "i">>,
                      <<"i", "n", "t", "e", "r", "e", "s", "t", " ", "r", "a", "t", "e">>>>],
      [category |-> <<"s", "o", "c", "i", "a", "l", "_", "w", "e", "l", "f", "a", "r", "e">>,
       keywords |-> <<<<"w", "e", "l", "f", "a", "r", "e">>,
                      <<"s", "u", "b", "s", "i", "d", "y">>,
                      <<"s", "c", "h", "e", "m", "e">>,
                      <<"b", "e", "n", "e", "f", "i", "t">>,
                      <<"a", "l", "l", "o", "w", "a", "n", "c", "e">>,
                      <<"p", "e", "n", "s", "i", "o", "n">>,
                      <<"p", "o", "v", "e", "r", "t", "y">>,
                      <<"b", "e", "l", "o", "w", " ", "p", "o", "v", "e", "r", "t", "y", " ", "l", "i", "n", "e">>,
                      <<"b", "p", "l">>>>],
      [category |-> <<"e", "n", "e", "r", "g", "y">>,
       keywords |-> <<<<"e", "n", "e", "r", "g", "y">>, <<"p", "o", "w", "e", "r">>,
                      <<"e", "l", "e", "c", "t", "r", "i", "c", "i", "t", "y">>,
                      <<"r", "e", "n", "e", "w", "a", "b", "l", "e">>,
                      <<"s", "o", "l", "a", "r">>, <<"c", "o", "a", "l">>,
                      <<"o", "i", "l">>, <<"p", "e", "t", "r", "o", "l", "e", "u", "m">>,
                      <<"g", "a", "s">>, <<"f", "u", "e", "l">>>>],
      [category |-> <<"d", "i", "g", "i", "t", "a", "l">>,
       keywords |-> <<<<"d", "i", "g", "i", "t", "a", "l">>,
                      <<"t", "e", "c", "h", "n", "o", "l", "o", "g", "y">>, <<"i", "t">>,
                      <<"s", "o", "f", "t", "w", "a", "r", "e">>,
                      <<"c", "y", "b", "e", "r">>,
                      <<"i", "n", "t", "e", "r", "n", "e", "t">>,
                      <<"o", "n", "l", "i", "n", "e">>,
                      <<"e", "-", "g", "o", "v", "e", "r", "n", "a", "n", "c", "e">>,
                      <<"d", "i", "g", "i", "t", "a", "l", " ", "i", "n", "d", "i", "a">>>>],
      [category |-> <<"m", "s", "m", "e">>,
       keywords |-> <<<<"m", "s", "m", "e">>,
                      <<"s", "m", "a", "l", "l", " ", "b", "u", "s", "i", "n", "e", "s", "s">>,
                      <<"m", "e", "d", "i", "u", "m", " ", "e", "n", "t", "e", "r", "p", "r", "i", "s", "e">>,
                      <<"s", "t", "a", "r", "t", "u", "p">>,
                      <<"e", "n", "t", "r", "e", "p", "r", "e", "n", "e", "u", "r">>,
                      <<"m", "u", "d", "r", "a">>, <<"s", "i", "d", "b", "i">>>>]
    >>

user_type_keywords ==
    <<
      [category |-> <<"s", "a", "l", "a", "r", "i", "e", "d">>,
       keywords |-> <<<<"s", "a", "l", "a", "r", "y">>,
                      <<"s", "a", "l", "a", "r", "i", "e", "d">>,
                      <<"e", "m", "p", "l", "o", "y", "e", "e">>,
                      <<"e", "m", "p", "l", "o", "y", "e", "r">>, <<"w", "a", "g", "e">>,
                      <<"p", "r", "o", "f", "e", "s", "s", "i", "o", "n">>,
                      <<"p", "r", "o", "f", "e", "s", "s", "i", "o", "n", "a", "l">>,
                      <<"e", "m", "p", "l", "o", "y", "m", "e", "n", "t">>,
                      <<"t", "d", "s">>>>],
      [category |-> <<"b", "u", "s", "i", "n", "e", "s", "s">>,
       keywords |-> <<<<"b", "u", "s", "i", "n", "e", "s", "s">>,
                      <<"t", "r", "a", "d", "e", "r">>,
                      <<"e", "n", "t", "r", "e", "p", "r", "e", "n", "e", "u", "r">>,
                      <<"p", "r", "o", "p", "r", "i", "e", "t", "o", "r">>,
                      <<"p", "a", "r", "t", "n", "e", "r", "s", "h", "i", "p">>,
                      <<"c", "o", "m", "p", "a", "n", "y">>, <<"f", "i", "r", "m">>,
                      <<"g", "s", "t">>, <<"t", "u", "r", "n", "o", "v", "e", "r">>>>],
      [category |-> <<"s", "e", "n", "i", "o", "r", "_", "c", "i", "t", "i", "z", "e", "n">>,
       keywords |-> <<<<"s", "e", "n", "i", "o", "r", " ", "c", "i", "t", "i", "z", "e", "n">>,
                      <<"s", "e", "n", "i", "o", "r">>, <<"a", "g", "e", "d">>,
                      <<"e", "l", "d", "e", "r", "l", "y">>,
                      <<"p", "e", "n", "s", "i", "o", "n">>,
                      <<"6", "0", " ", "y", "e", "a", "r", "s">>,
                      <<"8", "0", " ", "y", "e", "a", "r", "s">>>>],
      [category |-> <<"s", "t", "u", "d", "e", "n", "t">>,
       keywords |-> <<<<"s", "t", "u", "d", "e", "n", "t">>,
                      <<"e", "d", "u", "c", "a", "t", "i", "o", "n">>,
                      <<"s", "c", "h", "o", "l", "a", "r", "s", "h", "i", "p">>,
                      <<"f", "e", "e">>, <<"t", "u", "i", "t", "i", "o", "n">>,
                      <<"s", "c", "h", "o", "o", "l">>,
                      <<"c", "o", "l", "l", "e", "g", "e">>,
                      <<"u", "n", "i", "v", "e", "r", "s", "i", "t", "y">>>>],
      [category |-> <<"f", "a", "r", "m", "e", "r">>,
       keywords |-> <<<<"f", "a", "r", "m", "e", "r">>,
                      <<"a", "g", "r", "i", "c", "u", "l", "t", "u", "r", "e">>,
                      <<"a", "g", "r", "i", "c", "u", "l", "t", "u", "r", "a", "l", " ", "i", "n", "c", "o", "m", "e">>,
                      <<"c", "r", "o", "p">>, <<"k", "i", "s", "a", "n">>>>],
      [category |-> <<"w", "o", "m", "a", "n">>,
       keywords |-> <<<<"w", "o", "m", "a", "n">>, <<"w", "o", "m", "e", "n">>,
                      <<"f", "e", "m", "a", "l", "e">>,
                      <<"m", "a", "t", "e", "r", "n", "i", "t", "y">>,
                      <<"m", "a", "t", "e", "r", "n", "a", "l">>,
                      <<"g", "i", "r", "l", " ", "c", "h", "i", "l", "d">>,
                      <<"b", "e", "t", "i", " ", "b", "a", "c", "h", "a", "o">>>>],
      [category |-> <<"d", "i", "s", "a", "b", "l", "e", "d">>,
       keywords |-> <<<<"d", "i", "s", "a", "b", "l", "e", "d">>,
                      <<"d", "i", "s", "a", "b", "i", "l", "i", "t", "y">>,
                      <<"h", "a", "n", "d", "i", "c", "a", "p", "p", "e", "d">>,
                      <<"d", "i", "f", "f", "e", "r", "e", "n", "t", "l", "y", " ", "a", "b", "l", "e", "d">>,
                      <<"p", "w", "d">>>>],
      [category |-> <<"n", "r", "i">>,
       keywords |-> <<<<"n", "r", "i">>,
                      <<"n", "o", "n", "-", "r", "e", "s", "i", "d", "e", "n", "t">>,
                      <<"f", "o", "r", "e", "i", "g", "n">>,
                      <<"o", "v", "e", "r", "s", "e", "a", "s">>,
                      <<"e", "x", "p", "a", "t", "r", "i", "a", "t", "e">>>>]
    >>

sector_keywords ==
    <<
      [category |-> <<"i", "t">>,
       keywords |-> <<<<"i", "n", "f", "o", "r", "m", "a", "t", "i", "o", "n", " ", "t", "e", "c", "h", "n", "o", "l", "o", "g", "y">>,
                      <<"s", "o", "f", "t", "w", "a", "r", "e">>, <<"i", "t">>,
                      <<"t", "e", "c", "h">>, <<"c", "o", "m", "p", "u", "t", "e", "r">>,
                      <<"d", "i", "g", "i", "t", "a", "l">>>>],
      [category |-> <<"m", "a", "n", "u", "f", "a", "c", "t", "u", "r", "i", "n", "g">>,
       keywords |-> <<<<"m", "a", "n", "u", "f", "a", "c", "t", "u", "r", "i", "n", "g">>,
                      <<"i", "n", "d", "u", "s", "t", "r", "y">>,
                      <<"f", "a", "c", "t", "o", "r", "y">>,
                      <<"p", "r", "o", "d", "u", "c", "t", "i", "o", "n">>,
                      <<"m", "a", "k", "e", " ", "i", "n", " ", "i", "n", "d", "i", "a">>>>],
      [category |-> <<"s", "e", "r", "v", "i", "c", "e", "s">>,
       keywords |-> <<<<"s", "e", "r", "v", "i", "c", "e">>,
                      <<"s", "e", "r", "v", "i", "c", "e", "s">>,
                      <<"h", "o", "s", "p", "i", "t", "a", "l", "i", "t", "y">>,
                      <<"t", "o", "u", "r", "i", "s", "m">>,
                      <<"c", "o", "n", "s", "u", "l", "t", "i", "n", "g">>>>],
      [category |-> <<"a", "g", "r", "i", "c", "u", "l", "t", "u", "r", "e">>,
       keywords |-> <<<<"a", "g", "r", "i", "c", "u", "l", "t", "u", "r", "e">>,
                      <<"f", "a", "r", "m", "i", "n", "g">>, <<"a", "g", "r", "i">>,
                      <<"c", "r", "o", "p">>,
                      <<"l", "i", "v", "e", "s", "t", "o", "c", "k">>>>],
      [category |-> <<"h", "e", "a", "l", "t", "h", "c", "a", "r", "e">>,
       keywords |-> <<<<"h", "e", "a", "l", "t", "h", "c", "a", "r", "e">>,
                      <<"m", "e", "d", "i", "c", "a", "l">>,
                      <<"p", "h", "a", "r", "m", "a", "c", "e", "u", "t", "i", "c", "a", "l">>,
                      <<"h", "o", "s", "p", "i", "t", "a", "l">>,
                      <<"c", "l", "i", "n", "i", "c", "a", "l">>>>],
      [category |-> <<"e", "d", "u", "c", "a", "t", "i", "o", "n">>,
       keywords |-> <<<<"e", "d", "u", "c", "a", "t", "i", "o", "n">>,
                      <<"e", "d", "u", "c", "a", "t", "i", "o", "n", "a", "l">>,
                      <<"s", "c", "h", "o", "o", "l">>,
                      <<"c", "o", "a", "c", "h", "i", "n", "g">>,
                      <<"t", "r", "a", "i", "n", "i", "n", "g">>>>],
      [category |-> <<"r", "e", "a", "l", "_", "e", "s", "t", "a", "t", "e">>,
       keywords |-> <<<<"r", "e", "a", "l", " ", "e", "s", "t", "a", "t", "e">>,
                      <<"p", "r", "o", "p", "e", "r", "t", "y">>,
                      <<"h", "o", "u", "s", "i", "n", "g">>,
                      <<"c", "o", "n", "s", "t", "r", "u", "c", "t", "i", "o", "n">>,
                      <<"b", "u", "i", "l", "d", "e", "r">>>>],
      [category |-> <<"f", "i", "n", "a", "n", "c", "e">>,
       keywords |-> <<<<"b", "a", "n", "k", "i", "n", "g">>,
                      <<"f", "i", "n", "a", "n", "c", "e">>,
                      <<"i", "n", "s", "u", "r", "a", "n", "c", "e">>,
                      <<"i", "n", "v", "e", "s", "t", "m", "e", "n", "t">>,
                      <<"n", "b", "f", "c">>>>],
      [category |-> <<"r", "e", "t", "a", "i", "l">>,
       keywords |-> <<<<"r", "e", "t", "a", "i", "l">>, <<"s", "h", "o", "p">>,
                      <<"s", "t", "o", "r", "e">>, <<"m", "a", "l", "l">>,
                      <<"e", "-", "c", "o", "m", "m", "e", "r", "c", "e">>>>],
      [category |-> <<"t", "r", "a", "n", "s", "p", "o", "r", "t">>,
       keywords |-> <<<<"t", "r", "a", "n", "s", "p", "o", "r", "t">>,
                      <<"l", "o", "g", "i", "s", "t", "i", "c", "s">>,
                      <<"s", "h", "i", "p", "p", "i", "n", "g">>,
                      <<"d", "e", "l", "i", "v", "e", "r", "y">>,
                      <<"c", "o", "u", "r", "i", "e", "r">>>>]
    >>

income_keywords ==
    <<
      [category |-> <<"0", "-", "5", "L">>,
       keywords |-> <<<<"u", "p", " ", "t", "o">>,
                      <<"b", "e", "l", "o", "w", " ", "5", " ", "l", "a", "k", "h">>,
                      <<"l", "e", "s", "s", " ", "t", "h", "a", "n", " ", "5", " ", "l", "a", "k", "h">>,
                      <<"u", "p", "t", "o", " ", "5", " ", "l", "a", "k", "h">>,
                      <<"n", "o", "t", " ", "e", "x", "c", "e", "e", "d", "i", "n", "g", " ", "5", " ", "l", "a", "k", "h">>,
                      <<"2", ".", "5", " ", "l", "a", "k", "h">>,
                      <<"3", " ", "l", "a", "k", "h">>, <<"5", " ", "l", "a", "k", "h">>>>],
      [category |-> <<"5", "-", "1", "0", "L">>,
       keywords |-> <<<<"5", " ", "l", "a", "k", "h", " ", "t", "o", " ", "1", "0", " ", "l", "a", "k", "h">>,
                      <<"7", " ", "l", "a", "k", "h">>,
                      <<"7", ".", "5", " ", "l", "a", "k", "h">>,
                      <<"1", "0", " ", "l", "a", "k", "h">>,
                      <<"b", "e", "t", "w", "e", "e", "n", " ", "5", " ", "a", "n", "d", " ", "1", "0", " ", "l", "a", "k", "h">>,
                      <<"a", "b", "o", "v", "e", " ", "5", " ", "l", "a", "k", "h">>,
                      <<"e", "x", "c", "e", "e", "d", "i", "n", "g", " ", "5", " ", "l", "a", "k", "h">>>>],
      [category |-> <<"1", "0", "-", "1", "5", "L">>,
       keywords |-> <<<<"1", "0", " ", "l", "a", "k", "h", " ", "t", "o", " ", "1", "5", " ", "l", "a", "k", "h">>,
                      <<"1", "2", " ", "l", "a", "k", "h">>,
                      <<"1", "2", ".", "5", " ", "l", "a", "k", "h">>,
                      <<"1", "5", " ", "l", "a", "k", "h">>,
                      <<"b", "e", "t", "w", "e", "e", "n", " ", "1", "0", " ", "a", "n", "d", " ", "1", "5", " ", "l", "a", "k", "h">>,
                      <<"a", "b", "o", "v", "e", " ", "1", "0", " ", "l", "a", "k", "h">>>>],
      [category |-> <<"1", "5", "L", "+">>,
       keywords |-> <<<<"a", "b", "o", "v", "e", " ", "1", "5", " ", "l", "a", "k", "h">>,
                      <<"e", "x", "c", "e", "e", "d", "i", "n", "g", " ", "1", "5", " ", "l", "a", "k", "h">>,
                      <<"2", "0", " ", "l", "a", "k", "h">>,
                      <<"5", "0", " ", "l", "a", "k", "h">>,
                      <<"1", " ", "c", "r", "o", "r", "e">>,
                      <<"m", "o", "r", "e", " ", "t", "h", "a", "n", " ", "1", "5", " ", "l", "a", "k", "h">>,
                      <<"s", "u", "p", "e", "r", " ", "r", "i", "c", "h">>,
                      <<"h", "i", "g", "h", " ", "i", "n", "c", "o", "m", "e">>>>]
    >>

stop_words ==
    {<<"t", "h", "e">>, <<"b", "e">>, <<"t", "o">>, <<"o", "f">>, <<"a", "n", "d">>,
     <<"a">>, <<"i", "n">>, <<"t", "h", "a", "t">>, <<"h", "a", "v", "e">>, <<"i">>,
     <<"i", "t">>, <<"f", "o", "r">>, <<"n", "o", "t">>, <<"o", "n">>,
     <<"w", "i", "t", "h">>, <<"h", "e">>, <<"a", "s">>, <<"y", "o", "u">>, <<"d", "o">>,
     <<"a", "t">>, <<"t", "h", "i", "s">>, <<"b", "u", "t">>, <<"h", "i", "s">>,
     <<"b", "y">>, <<"f", "r", "o", "m">>, <<"t", "h", "e", "y">>, <<"w", "e">>,
     <<"s", "a", "y">>, <<"h", "e", "r">>, <<"s", "h", "e">>, <<"o", "r">>, <<"a", "n">>,
     <<"w", "i", "l", "l">>, <<"m", "y">>, <<"o", "n", "e">>, <<"a", "l", "l">>,
     <<"w", "o", "u", "l", "d">>, <<"t", "h", "e", "r", "e">>,
     <<"t", "h", "e", "i", "r">>, <<"i", "s">>, <<"a", "r", "e">>, <<"w", "a", "s">>,
     <<"w", "e", "r", "e">>, <<"b", "e", "e", "n">>, <<"h", "a", "s">>,
     <<"h", "a", "d">>, <<"c", "a", "n">>, <<"m", "a", "y">>,
     <<"s", "h", "a", "l", "l">>}

\* _find_matches: the categories of keyword_dict, in its order, that have
\* a keyword in the lower-cased text; one entry per category ("break").
find_matches(text, keyword_dict) ==
    LET text_lower == lower(text)
        matched(entry) ==
            \E k \in 1..Len(entry.keywords) : str_in(entry.keywords[k], text_lower)
        hits == SelectSeq(keyword_dict, matched)
    IN  [i \in 1..Len(hits) |-> hits[i].category]

\* topic.replace('_', ' ').title()
title_of(topic) ==
    LET spaced == [i \in 1..Len(topic) |-> IF topic[i] = "_" THEN " " ELSE topic[i]]
    IN  [i \in 1..Len(spaced) |->
            IF i = 1 \/ ~is_letter(spaced[i - 1])
            THEN upper_char(spaced[i]) ELSE lower_char(spaced[i])]

\* _to_hierarchical_topics
to_hierarchical_topics(flat_topics) ==
    [i \in 1..Len(flat_topics) |->
        IF \E h \in 1..Len(topic_hierarchy) : topic_hierarchy[h].topic = flat_topics[i]
        THEN topic_hierarchy[CHOOSE h \in 1..Len(topic_hierarchy) :
                                 topic_hierarchy[h].topic = flat_topics[i]].entry
        ELSE [main |-> <<"G", "e", "n", "e", "r", "a", "l">>, sub |-> title_of(flat_topics[i])]]

\* A maximal run of word characters gives a match of \b[a-z]{3,}\b when it
\* is made of lower-case letters only and has three of them or more.
word_match(run) ==
    IF Len(run) >= 3 /\ \A j \in 1..Len(run) : is_lower(run[j]) THEN <<run>> ELSE <<>>

\* re.findall(r'\b[a-z]{3,}\b', text): i is the position read, run the word
\* characters read since the last boundary, found the matches so far.
RECURSIVE findall_words(_, _, _, _)
findall_words(text, i, run, found) ==
    IF i > Len(text) THEN found \o word_match(run)
    ELSE IF is_word_char(text[i])
         THEN findall_words(text, i + 1, Append(run, text[i]), found)
         ELSE findall_words(text, i + 1, <<>>, found \o word_match(run))

\* word_freq.get(word, 0)
freq_get(word_freq, word) ==
    IF \E i \in 1..Len(word_freq) : word_freq[i][1] = word
    THEN word_freq[CHOOSE i \in 1..Len(word_freq) : word_freq[i][1] = word][2]
    ELSE 0

\* The loop "for word in words" of _extract_keywords.
RECURSIVE count_words(_, _, _)
count_words(words, i, word_freq) ==
    IF i > Len(words) THEN word_freq
    ELSE IF words[i] \notin stop_words /\ Len(words[i]) > 3
         THEN count_words(words, i + 1,
                  DictPut(word_freq, words[i], freq_get(word_freq, words[i]) + 1))
         ELSE count_words(words, i + 1, word_freq)

RECURSIVE sorted_words(_)
sorted_words_unsorted(word_freq) == word_freq

\* sorted(word_freq.items(), key=lambda x: x[1], reverse=True): a stable
\* sort, so equal counts keep the order of the dict
sorted_words(word_freq) ==
    IF word_freq = <<>> THEN <<>>
    ELSE LET n == Len(word_freq)
             last == word_freq[n]
             init == sorted_words(SubSeq(word_freq, 1, n - 1))
             keep == Cardinality({i \in 1..Len(init) : init[i][2] >= last[2]})
         IN  SubSeq(init, 1, keep) \o <<last>> \o SubSeq(init, keep + 1, Len(init))

TOP_N == 10

\* _extract_keywords
extract_keywords(text, top_n) ==
    LET words == findall_words(lower(text), 1, <<>>, <<>>)
        word_freq == count_words(words, 1, <<>>)
        ranked == sorted_words(word_freq)
    IN  [i \in 1..MinOf(top_n, Len(ranked)) |-> ranked[i][1]]

RECURSIVE sorted_strings(_)
sorted_strings_unsorted(strings) == strings

\* sorted(strings)
sorted_strings(strings) ==
    IF strings = <<>> THEN <<>>
    ELSE LET n == Len(strings)
             last == strings[n]
             init == sorted_strings(SubSeq(strings, 1, n - 1))
             keep == Cardinality({i \in 1..Len(init) : ~str_less(last, init[i])})
         IN  SubSeq(init, 1, keep) \o <<last>> \o SubSeq(init, keep + 1, Len(init))

GENERAL_UNCATEGORIZED ==
    [main |-> <<"G", "e", "n", "e", "r", "a", "l">>, sub |-> <<"U", "n", "c", "a", "t", "e", "g", "o", "r", "i", "z", "e", "d">>]

topics_or_default_none(hierarchical_topics) == hierarchical_topics

\* if not hierarchical_topics: hierarchical_topics = [{'main': 'General', ...}]
topics_or_default(hierarchical_topics) ==
    IF hierarchical_topics = <<>> THEN <<GENERAL_UNCATEGORIZED>> ELSE hierarchical_topics

\* What datetime.now() can give.
Clock == {1, 2}

\* tag_chunk; now is what datetime.now() gives
tag_chunk(chunk_text, now) ==
    LET flat_topics == find_matches(chunk_text, topic_keywords)
        user_types == find_matches(chunk_text, user_type_keywords)
        sectors == find_matches(chunk_text, sector_keywords)
        income_ranges == find_matches(chunk_text, income_keywords)
        keywords == extract_keywords(chunk_text, TOP_N)
        hierarchical_topics == to_hierarchical_topics(flat_topics)
    IN  [topics           |-> topics_or_default(hierarchical_topics),
         user_types       |-> user_types,
         sectors          |-> sectors,
         income_ranges    |-> sorted_strings(income_ranges),
         keywords         |-> keywords,
         pipeline_version |-> <<"v", "1", ".", "0">>,
         created_at       |-> now]

\* One call of tag_chunk.
TagChunk ==
    /\ tg_pc = "ready"
    /\ \E now \in Clock : tg_meta' = <<tag_chunk(tg_text, now)>>
    /\ tg_pc' = "done"
    /\ UNCHANGED <<tg_text, gqVars, spVars, inVars, ssVars, qsVars, cdVars, ldVars, rqVars,
                   sgVars, upVars, emVars>>

(***************************************************************************)
(* ingestion/text_splitter.py : _split_into_sentences, on texts given as   *)
(* sequences of characters.                                                *)
(***************************************************************************)

\* The abbreviations in the order of the code: the pattern that re.sub
\* looks for after a word boundary, what it puts instead, and the pair of
\* str.replace that is meant to bring the abbreviation back.
ABBREVIATIONS ==
    <<[pattern |-> <<"D", "r", ".">>, bare |-> <<"D", "r">>,
       old |-> <<"D", "r", " ">>, new |-> <<"D", "r", ".", " ">>],
      [pattern |-> <<"M", "r", ".">>, bare |-> <<"M", "r">>,
       old |-> <<"M", "r", " ">>, new |-> <<"M", "r", ".", " ">>],
      [pattern |-> <<"M", "r", "s", ".">>, bare |-> <<"M", "r", "s">>,
       old |-> <<"M", "r", "s", " ">>, new |-> <<"M", "r", "s", ".", " ">>],
      [pattern |-> <<"M", "s", ".">>, bare |-> <<"M", "s">>,
       old |-> <<"M", "s", " ">>, new |-> <<"M", "s", ".", " ">>],
      [pattern |-> <<"N", "o", ".">>, bare |-> <<"N", "o">>,
       old |-> <<"N", "o", " ">>, new |-> <<"N", "o", ".", " ">>],
      [pattern |-> <<"v", "s", ".">>, bare |-> <<"v", "s">>,
       old |-> <<"v", "s", " ">>, new |-> <<"v", "s", ".", " ">>],
      [pattern |-> <<"e", "t", "c", ".">>, bare |-> <<"e", "t", "c">>,
       old |-> <<"e", "t", "c", " ">>, new |-> <<"e", "t", "c", ".", " ">>],
      [pattern |-> <<"i", ".", "e", ".">>, bare |-> <<"i", "e">>,
       old |-> <<"i", "e", " ">>, new |-> <<"i", ".", "e", ".", " ">>],
      [pattern |-> <<"e", ".", "g", ".">>, bare |-> <<"e", "g">>,
       old |-> <<"e", "g", " ">>, new |-> <<"e", ".", "g", ".", " ">>]>>

\* text[i:].startswith(s), i counted from 1
starts_at(text, i, s) ==
    /\ i + Len(s) - 1 <= Len(text)
    /\ \A j \in 1..Len(s) : text[i + j - 1] = s[j]

\* re.sub(r'\b' + pattern, bare, text) for a pattern that starts with a
\* letter: i is the position read, out the text written so far.
RECURSIVE re_sub(_, _, _, _, _)
re_sub(pattern, bare, text, i, out) ==
    IF i > Len(text) THEN out
    ELSE IF /\ starts_at(text, i, pattern)
            /\ (i = 1 \/ ~is_word_char(text[i - 1]))
         THEN re_sub(pattern, bare, text, i + Len(pattern), out \o bare)
         ELSE re_sub(pattern, bare, text, i + 1, Append(out, text[i]))

\* The nine re.sub calls, one after the other.
RECURSIVE normalise(_, _)
normalise(text, n) ==
    IF n > Len(ABBREVIATIONS) THEN text
    ELSE normalise(re_sub(ABBREVIATIONS[n].pattern, ABBREVIATIONS[n].bare, text, 1, <<>>),
                   n + 1)

is_space(c) == c = " "

\* The end of the run of whitespace that starts at i.
RECURSIVE space_run_end(_, _)
space_run_end(text, i) ==
    IF i < Len(text) /\ is_space(text[i + 1]) THEN space_run_end(text, i + 1) ELSE i

is_upper_or_digit(c) == (\E k \in 1..26 : ascii_uppercase[k] = c) \/ c \in digits

\* re.split(r'(?<=[.!?])\s+(?=[A-Z0-9])', text): i is the position read,
\* current the part being read, parts the parts closed so far.
RECURSIVE re_split(_, _, _, _)
re_split(text, i, current, parts) ==
    IF i > Len(text) THEN Append(parts, current)
    ELSE IF /\ i > 1
            /\ text[i - 1] \in {".", "!", "?"}
            /\ is_space(text[i])
            /\ space_run_end(text, i) < Len(text)
            /\ is_upper_or_digit(text[space_run_end(text, i) + 1])
         THEN re_split(text, space_run_end(text, i) + 1, <<>>, Append(parts, current))
         ELSE re_split(text, i + 1, Append(current, text[i]), parts)

\* s.replace(old, new)
RECURSIVE str_replace(_, _, _, _, _)
str_replace(s, old, new, i, out) ==
    IF i > Len(s) THEN out
    ELSE IF starts_at(s, i, old)
         THEN str_replace(s, old, new, i + Len(old), out \o new)
         ELSE str_replace(s, old, new, i + 1, Append(out, s[i]))

\* The nine replace calls on one sentence, one after the other.
RECURSIVE restore(_, _)
restore(s, n) ==
    IF n > Len(ABBREVIATIONS) THEN s
    ELSE restore(str_replace(s, ABBREVIATIONS[n].old, ABBREVIATIONS[n].new, 1, <<>>),
                 n + 1)

\* s.strip()
RECURSIVE strip(_)
strip(s) ==
    IF s = <<>> THEN s
    ELSE IF is_space(s[1]) THEN strip(Tail(s))
    ELSE IF is_space(s[Len(s)]) THEN strip(SubSeq(s, 1, Len(s) - 1))
    ELSE s

\* _split_into_sentences
split_into_sentences(text) ==
    LET parts == re_split(normalise(text, 1), 1, <<>>, <<>>)
        restored == [k \in 1..Len(parts) |-> restore(parts[k], 1)]
        kept == SelectSeq(restored, LAMBDA s : strip(s) # <<>>)
    IN  [k \in 1..Len(kept) |-> strip(kept[k])]

\* One call of _split_into_sentences.
SplitIntoSentences ==
    /\ ss_pc = "ready"
    /\ ss_sentences' = split_into_sentences(ss_text)
    /\ ss_pc' = "done"
    /\ UNCHANGED <<ss_text, gqVars, spVars, inVars, tgVars, qsVars, cdVars, ldVars, rqVars,
                   sgVars, upVars, emVars>>

(***************************************************************************)
(* Specifications                                                          *)
(***************************************************************************)

\* Sentences a page can have.
MaxSentences == 4

SentenceLens == {3, 4, 7, 12}

ChunkSizes == {0, 2, 3}

ChunkOverlaps == {0, 1, 2}

MinChunkSizes == {MIN_CHUNK_SIZE, 4, 6}

GroqIdle ==
    /\ gq_frames = <<>>
    /\ gq_ret = "none"
    /\ gq_calls = 0
    /\ gq_sleeps = 0
    /\ gq_outcomes = <<>>
    /\ gq_result = "none"

SplitIdle ==
    /\ sp_cfg = SemanticTextSplitter(0, 0, MIN_CHUNK_SIZE)
    /\ sp_sentences = <<>>
    /\ sp_pc = "ready"
    /\ sp_chunks = <<>>

IngestIdle ==
    /\ in_dir = {}
    /\ in_pc = "start"
    /\ pdf_files = <<>>
    /\ documents = <<>>
    /\ failed_files = <<>>
    /\ chunks_by_doc = <<>>
    /\ tagged_by_doc = <<>>
    /\ all_chunks = <<>>
    /\ in_i = 0

LoadIdle ==
    /\ ld_name = <<>>
    /\ ld_file = [exists |-> FALSE]
    /\ ld_fallback = TRUE
    /\ ld_pc = "ready"
    /\ ld_run = [doc |-> <<>>, raised |-> FALSE, calls |-> <<>>]

QueryIdle ==
    /\ vs_rows = <<>>
    /\ vs_ivfflat = FALSE
    /\ rp_top_k = DEFAULT_TOP_K
    /\ rp_threshold = DEFAULT_SIMILARITY_THRESHOLD
    /\ rp_max_context = DEFAULT_MAX_CONTEXT_CHUNKS
    /\ rq_active = {}
    /\ rq_sims = [r \in Requests |-> <<>>]
    /\ rq_filter = [r \in Requests |-> <<>>]
    /\ rq_pc = [r \in Requests |-> "start"]
    /\ rq_embeds = [r \in Requests |-> 0]
    /\ rq_searches = [r \in Requests |-> 0]
    /\ rq_found = [r \in Requests |-> [call_ok |-> TRUE, results |-> <<>>]]
    /\ rq_chunks = [r \in Requests |-> <<>>]
    /\ rq_generated = [r \in Requests |-> <<>>]

SingletonIdle ==
    /\ sg_rag_pipeline = <<>>
    /\ sg_groq_client = <<>>
    /\ sg_pipelines = <<>>
    /\ sg_clients = 0
    /\ sg_stack = [t \in Threads |-> <<>>]
    /\ sg_calls = 0
    /\ sg_returns = {}

UploadIdle ==
    /\ up_chunks = <<>>
    /\ up_batch_size = UPLOAD_BATCH_SIZE
    /\ up_table_dim = SCHEMA_DIMENSION
    /\ up_i = 0
    /\ up_success = 0
    /\ up_failed = 0
    /\ up_rows = <<>>
    /\ up_batches = <<>>
    /\ up_pc = "loop"
    /\ up_stats = <<>>

EmbedIdle ==
    /\ em_embedder = "local"
    /\ em_chunks = <<>>
    /\ em_batch_size = LOCAL_BATCH_SIZE
    /\ em_pc = "ready"
    /\ em_out = <<>>

ChunkDocIdle ==
    /\ cd_splitter = SemanticTextSplitter(0, 0, MIN_CHUNK_SIZE)
    /\ cd_document = [filename |-> <<>>, pages |-> <<>>]
    /\ cd_pc = "ready"
    /\ cd_chunks = <<>>

QualityIdle ==
    /\ qs_text = [pad |-> 0, groups |-> <<>>]
    /\ qs_built = {}

TagIdle ==
    /\ tg_text = <<>>
    /\ tg_pc = "ready"
    /\ tg_meta = <<>>

SentenceIdle ==
    /\ ss_text = <<>>
    /\ ss_pc = "ready"
    /\ ss_sentences = <<>>

ExtIdle == LoadIdle /\ QueryIdle /\ SingletonIdle /\ UploadIdle /\ EmbedIdle /\ ChunkDocIdle /\ QualityIdle /\ TagIdle /\ SentenceIdle

\* --- chat_completion
GroqInit == GroqIdle /\ SplitIdle /\ IngestIdle /\ ExtIdle

GroqNext == Invoke \/ ServiceCall \/ StackExhausted \/ SleepAndRetry \/ RetryReturn

GroqSpec == GroqInit /\ [][GroqNext]_vars

\* The service answers or fails every call and a sleep ends, so an
\* activation that can take a step takes it.
GroqLiveSpec == GroqInit /\ [][GroqNext]_vars /\ WF_vars(GroqStep)

\* --- split_text on one page
SplitInit ==
    /\ GroqIdle /\ IngestIdle /\ ExtIdle
    /\ \E cs \in ChunkSizes, co \in ChunkOverlaps, ms \in MinChunkSizes :
           sp_cfg = SemanticTextSplitter(cs, co, ms)
    /\ sp_sentences \in UNION {[1..n -> SentenceLens] : n \in 0..MaxSentences}
    /\ sp_pc = "ready"
    /\ sp_chunks = <<>>

SplitText ==
    /\ sp_pc = "ready"
    /\ sp_chunks' = split_text(sp_cfg, sp_sentences)
    /\ sp_pc' = "done"
    /\ UNCHANGED <<sp_cfg, sp_sentences, gqVars, inVars, extVars>>

SplitNext == SplitText

SplitSpec == SplitInit /\ [][SplitNext]_vars

\* --- process_documents
IngestInit ==
    /\ GroqIdle /\ SplitIdle /\ ExtIdle
    /\ in_dir \in SUBSET FileNames
    /\ in_pc = "start"
    /\ pdf_files = <<>>
    /\ documents = <<>>
    /\ failed_files = <<>>
    /\ chunks_by_doc = <<>>
    /\ tagged_by_doc = <<>>
    /\ all_chunks = <<>>
    /\ in_i = 0

IngestNext ==
    Glob \/ LoadPdf \/ LoadAllDone \/ ChunkDocument \/ ChunkingDone \/ TagChunks
        \/ SaveOutput

IngestSpec == IngestInit /\ [][IngestNext]_vars

\* --- query() for one request
SimValues == {3000, 4006, 9500}
Thresholds == {DEFAULT_SIMILARITY_THRESHOLD, 9000}
TopKs == {1, 2, DEFAULT_TOP_K}
MaxContexts == {1, DEFAULT_MAX_CONTEXT_CHUNKS}
Filters == {<<>>, <<"salaried">>}

QueryFresh ==
    /\ rq_pc = [r \in Requests |-> "start"]
    /\ rq_embeds = [r \in Requests |-> 0]
    /\ rq_searches = [r \in Requests |-> 0]
    /\ rq_found = [r \in Requests |-> [call_ok |-> TRUE, results |-> <<>>]]
    /\ rq_chunks = [r \in Requests |-> <<>>]
    /\ rq_generated = [r \in Requests |-> <<>>]

QueryInit ==
    /\ GroqIdle /\ SplitIdle /\ IngestIdle /\ LoadIdle /\ SingletonIdle /\ UploadIdle
    /\ EmbedIdle /\ ChunkDocIdle /\ QualityIdle /\ TagIdle /\ SentenceIdle
    /\ vs_rows = StoreRows
    /\ vs_ivfflat \in BOOLEAN
    /\ rp_top_k \in TopKs
    /\ rp_threshold \in Thresholds
    /\ rp_max_context \in MaxContexts
    /\ rq_active = {1}
    /\ \E sims \in [1..NumChunks -> SimValues] :
           rq_sims = [r \in Requests |-> IF r = 1 THEN sims ELSE <<>>]
    /\ \E f \in Filters :
           rq_filter = [r \in Requests |-> IF r = 1 THEN f ELSE <<>>]
    /\ QueryFresh

QueryNext ==
    \E r \in Requests :
        \/ EmbedQuery(r)
        \/ SearchStore(r)
        \/ Generate(r)

QuerySpec == QueryInit /\ [][QueryNext]_vars

\* --- concurrent requests on the pipeline get_rag_pipeline() builds
\* Queries whose similarities to the rows are pairwise distinct or mostly low.
ConcurrentSims ==
    {[i \in 1..NumChunks |-> 9500 - i],
     [i \in 1..NumChunks |-> IF i = 1 THEN 4006 ELSE 3000]}

ConcurrentInit ==
    /\ GroqIdle /\ SplitIdle /\ IngestIdle /\ LoadIdle /\ SingletonIdle /\ UploadIdle
    /\ EmbedIdle /\ ChunkDocIdle /\ QualityIdle /\ TagIdle /\ SentenceIdle
    /\ vs_rows = StoreRows
    /\ vs_ivfflat = FALSE
    /\ rp_top_k = DEFAULT_TOP_K
    /\ rp_threshold = DEFAULT_SIMILARITY_THRESHOLD
    /\ rp_max_context = DEFAULT_MAX_CONTEXT_CHUNKS
    /\ rq_active = Requests
    /\ rq_sims \in [Requests -> ConcurrentSims]
    /\ rq_filter \in [Requests -> Filters]
    /\ QueryFresh

ConcurrentSpec == ConcurrentInit /\ [][QueryNext]_vars

\* --- first calls of the singleton accessors
SingletonInit ==
    /\ GroqIdle /\ SplitIdle /\ IngestIdle /\ LoadIdle /\ QueryIdle /\ UploadIdle
    /\ ChunkDocIdle /\ QualityIdle /\ TagIdle /\ SentenceIdle
    /\ EmbedIdle
    /\ SingletonIdle

SingletonNext ==
    \E t \in Threads :
        \/ \E fn \in Accessors : StartCall(t, fn)
        \/ CheckNone(t)
        \/ ConstructGroq(t)
        \/ ConstructRagBegin(t)
        \/ AssignGlobal(t)
        \/ ReturnToCaller(t)
        \/ ReturnToConstructor(t)

SingletonSpec == SingletonInit /\ [][SingletonNext]_vars

\* --- upload_chunks_batch on one list of embedded chunks
EmbeddingLens == {VECTOR_DIMENSION, SCHEMA_DIMENSION}
BatchSizes == {1, 2, UPLOAD_BATCH_SIZE}

UploadInit ==
    /\ GroqIdle /\ SplitIdle /\ IngestIdle /\ LoadIdle /\ QueryIdle /\ SingletonIdle
    /\ ChunkDocIdle /\ QualityIdle /\ TagIdle /\ SentenceIdle
    /\ EmbedIdle
    /\ \E n \in 0..MaxUpload : \E lens \in [1..n -> EmbeddingLens] :
           up_chunks = [j \in 1..n |-> [chunk_id |-> j, embedding_len |-> lens[j]]]
    /\ up_batch_size \in BatchSizes
    /\ up_table_dim \in EmbeddingLens
    /\ up_i = 0
    /\ up_success = 0
    /\ up_failed = 0
    /\ up_rows = <<>>
    /\ up_batches = <<>>
    /\ up_pc = "loop"
    /\ up_stats = <<>>

UploadNext == UploadBatch \/ UploadReturn

UploadSpec == UploadInit /\ [][UploadNext]_vars

\* --- embed_chunks on one list of chunks
EmbedBatchSizes == {1, 2, LOCAL_BATCH_SIZE, OPENAI_BATCH_SIZE}

EmbedInit ==
    /\ GroqIdle /\ SplitIdle /\ IngestIdle /\ LoadIdle /\ QueryIdle /\ SingletonIdle
    /\ ChunkDocIdle /\ QualityIdle /\ TagIdle /\ SentenceIdle
    /\ UploadIdle
    /\ em_embedder \in Embedders
    /\ \E n \in 0..MaxEmbed : \E enc \in [1..n -> BOOLEAN] :
           em_chunks = [j \in 1..n |-> [chunk_id |-> j, encodable |-> enc[j]]]
    /\ em_batch_size \in EmbedBatchSizes
    /\ em_pc = "ready"
    /\ em_out = <<>>

EmbedNext == EmbedChunks

EmbedSpec == EmbedInit /\ [][EmbedNext]_vars

\* --- chunk_document on one document
MaxDocPages == 2

MaxPageSentences == 2

PageSentenceLens == {4, 12}

\* The sentences a page can hold.
PageTexts == UNION {[1..n -> PageSentenceLens] : n \in 0..MaxPageSentences}

\* A document as the loader hands it over: pages numbered from 1 in order.
PDFDocument(texts) ==
    [filename |-> <<"a", ".", "p", "d", "f">>,
     pages |-> [i \in 1..Len(texts) |-> [page_number |-> i, sentences |-> texts[i]]]]

ChunkDocInit ==
    /\ GroqIdle /\ SplitIdle /\ IngestIdle /\ LoadIdle /\ QueryIdle /\ SingletonIdle
    /\ QualityIdle /\ TagIdle /\ SentenceIdle
    /\ UploadIdle /\ EmbedIdle
    /\ \E cs \in ChunkSizes, co \in ChunkOverlaps, ms \in MinChunkSizes :
           cd_splitter = SemanticTextSplitter(cs, co, ms)
    /\ \E n \in 1..MaxDocPages :
           \E texts \in [1..n -> PageTexts] : cd_document = PDFDocument(texts)
    /\ cd_pc = "ready"
    /\ cd_chunks = <<>>

ChunkDoc ==
    /\ cd_pc = "ready"
    /\ cd_chunks' = chunk_document(cd_splitter, cd_document)
    /\ cd_pc' = "done"
    /\ UNCHANGED <<cd_splitter, cd_document, gqVars, spVars, inVars, ssVars, tgVars, qsVars, ldVars, rqVars,
                   sgVars, upVars, emVars>>

ChunkDocNext == ChunkDoc

ChunkDocSpec == ChunkDocInit /\ [][ChunkDocNext]_vars

\* --- the quality score of one text, in chunks at several places
MaxWordGroups == 2

MaxBuilt == 2

\* Numbers of equal words in a group: around the thresholds 20, 50 and 600.
GroupCounts == {1, 19, 49, 600}

\* Kinds of word: letters only (around the mean lengths 2 and 20), a digit,
\* other characters only.
WordKinds ==
    {[alpha |-> 1, digit |-> 0, other |-> 0], [alpha |-> 2, digit |-> 0, other |-> 0],
     [alpha |-> 20, digit |-> 0, other |-> 0], [alpha |-> 21, digit |-> 0, other |-> 0],
     [alpha |-> 0, digit |-> 1, other |-> 0], [alpha |-> 0, digit |-> 0, other |-> 2]}

WordGroups ==
    {[count |-> c, alpha |-> k.alpha, digit |-> k.digit, other |-> k.other] :
        c \in GroupCounts, k \in WordKinds}

QualityTexts ==
    {[pad |-> p, groups |-> g] :
        p \in 0..1, g \in UNION {[1..n -> WordGroups] : n \in 0..MaxWordGroups}}

\* Places a chunk can have: document, page, chunk index.
ChunkPlaces ==
    {<<<<"a", ".", "p", "d", "f">>, 1, 0>>, <<<<"a", ".", "p", "d", "f">>, 2, 1>>,
     <<<<"b", ".", "p", "d", "f">>, 1, 0>>}

QualityInit ==
    /\ GroqIdle /\ SplitIdle /\ IngestIdle /\ LoadIdle /\ QueryIdle /\ SingletonIdle
    /\ TagIdle /\ SentenceIdle
    /\ UploadIdle /\ EmbedIdle /\ ChunkDocIdle
    /\ qs_text \in QualityTexts
    /\ qs_built = {}

QualityNext ==
    \E place \in ChunkPlaces :
        /\ Cardinality(qs_built) < MaxBuilt
        /\ BuildChunk(place[1], place[2], place[3])

QualitySpec == QualityInit /\ [][QualityNext]_vars

\* --- tag_chunk on one text
MaxPieces == 2

\* Pieces of text: words that are no keyword of any dictionary (twelve
\* distinct ones in the first two pieces), upper case, a word with an
\* underscore, one with a digit, stop words, income phrases, repeated words,
\* punctuation, blanks.
TextPieces ==
    {<<"a", "l", "p", "h", "a", " ", "b", "r", "a", "v", "o", " ", "c", "h", "a", "r",
       "l", "i", "e", " ", "d", "e", "l", "t", "a", " ", "e", "c", "h", "o", " ", "f",
       "o", "x", "t", "r", "o", "t", " ">>,
     <<"g", "o", "l", "f", " ", "h", "o", "t", "e", "l", " ", "i", "n", "d", "i", "a",
       " ", "j", "u", "l", "i", "e", "t", " ", "k", "i", "l", "o", " ", "l", "i", "m",
       "a", " ", "d", "e", "l", "t", "a", " ", "d", "e", "l", "t", "a", " ">>,
     <<"T", "a", "x", " ", "T", "A", "X", " ", "t", "a", "x", "_", "r", "a", "t", "e",
       " ", "a", "b", "c", "1", " ", "t", "h", "e", " ", "w", "i", "t", "h", " ", "i",
       "t", "'", "s", " ">>,
     <<"i", "n", "c", "o", "m", "e", " ", "a", "b", "o", "v", "e", " ", "1", "5", " ",
       "l", "a", "k", "h", " ">>,
     <<"1", "0", " ", "l", "a", "k", "h", " ">>,
     <<"U", "p", " ", "T", "o", " ", "7", ".", "5", " ", "L", "a", "k", "h", " ">>,
     <<"h", "e", "a", "l", "t", "h", " ", "h", "e", "a", "l", "t", "h", " ", "s", "c",
       "h", "o", "o", "l", " ">>,
     <<"s", "c", "h", "o", "o", "l", " ", "b", "u", "d", "g", "e", "t", " ", "b", "u",
       "d", "g", "e", "t", " ", "B", "u", "d", "g", "e", "t", " ">>,
     <<"1", " ", "c", "r", "o", "r", "e", ",", " ", "s", "u", "p", "e", "r", " ", "r",
       "i", "c", "h", "!", " ">>,
     <<" ", " ", " ">>}

TagTexts == {Concat(pieces) : pieces \in UNION {[1..n -> TextPieces] : n \in 0..MaxPieces}}

TagInit ==
    /\ GroqIdle /\ SplitIdle /\ IngestIdle /\ LoadIdle /\ QueryIdle /\ SingletonIdle
    /\ SentenceIdle
    /\ UploadIdle /\ EmbedIdle /\ ChunkDocIdle /\ QualityIdle
    /\ tg_text \in TagTexts
    /\ tg_pc = "ready"
    /\ tg_meta = <<>>

TagNext == TagChunk

TagSpec == TagInit /\ [][TagNext]_vars

\* --- _split_into_sentences on one text
MaxSentencePieces == 2

\* Pieces of page text: sentences with protected abbreviations, sentences
\* of ordinary words, an abbreviation that ends the piece, blanks.
SentencePieces ==
    {<<"D", "r", ".", " ", "S", "m", "i", "t", "h", " ", "s", "p", "o", "k", "e", ".",
       " ">>,
     <<"H", "e", " ", "s", "a", "w", " ", "a", " ", "m", "o", "v", "i", "e", " ", "t",
       "o", "d", "a", "y", ".", " ">>,
     <<"S", "e", "e", " ", "N", "o", ".", " ", "5", " ", "n", "o", "w", "!", " ">>,
     <<"T", "a", "x", "e", "s", ",", " ", "f", "e", "e", "s", " ", "e", "t", "c", ".">>,
     <<"I", "t", " ", "e", "n", "d", "e", "d", ".", " ">>,
     <<"i", ".", "e", ".", " ", "n", "o", "w", " ">>,
     <<"M", "r", "s", ".", " ", "R", "a", "o", " ", "v", "s", ".", " ", "M", "s", ".",
       " ", "R", "o", "y", "?", " ">>,
     <<" ", " ">>}

SentenceTexts ==
    {Concat(pieces) : pieces \in UNION {[1..n -> SentencePieces] : n \in 0..MaxSentencePieces}}

SentenceInit ==
    /\ GroqIdle /\ SplitIdle /\ IngestIdle /\ LoadIdle /\ QueryIdle /\ SingletonIdle
    /\ UploadIdle /\ EmbedIdle /\ ChunkDocIdle /\ QualityIdle /\ TagIdle
    /\ ss_text \in SentenceTexts
    /\ ss_pc = "ready"
    /\ ss_sentences = <<>>

SentenceNext == SplitIntoSentences

SentenceSpec == SentenceInit /\ [][SentenceNext]_vars

\* --- load_pdf on one file
\* Every file load_pdf can be called on.
AllFileStates ==
    [exists : BOOLEAN, size : FileSizes, openable : BOOLEAN, readable : BOOLEAN,
     content : Contents, primary : EngineOutcomes, fallback : EngineOutcomes]

LoadInit ==
    /\ GroqIdle /\ SplitIdle /\ IngestIdle /\ QueryIdle /\ SingletonIdle /\ UploadIdle
    /\ EmbedIdle /\ ChunkDocIdle /\ QualityIdle /\ TagIdle /\ SentenceIdle
    /\ ld_name \in FileNames
    /\ ld_file \in AllFileStates
    /\ ld_fallback \in BOOLEAN
    /\ ld_pc = "ready"
    /\ ld_run = [doc |-> <<>>, raised |-> FALSE, calls |-> <<>>]

LoadOne ==
    /\ ld_pc = "ready"
    /\ ld_run' = load_pdf_run(ld_name, ld_file, ld_fallback)
    /\ ld_pc' = "done"
    /\ UNCHANGED <<ld_name, ld_file, ld_fallback, gqVars, spVars, inVars, ssVars, tgVars, qsVars, cdVars, rqVars, sgVars, upVars, emVars>>

LoadNext == LoadOne

LoadSpec == LoadInit /\ [][LoadNext]_vars


(***************************************************************************)
(* Properties of chat_completion (GroqSpec, GroqLiveSpec)                  *)
(***************************************************************************)

Returned == gq_frames = <<>> /\ gq_result # "none"

RateLimited(o) == o.kind = "error" /\ o.msg # {}

\* C1: one invocation of chat_completion issues at most two calls of the
\* completion service, the second only after one sleep.
C1_AtMostTwoCalls == gq_calls <= 2 /\ gq_sleeps <= 1

\* C2: when the first call is rate limited and the retry fails too (in any
\* way), chat_completion returns the fixed apology and does not raise.
C2_TwoFailuresGiveApology ==
    (/\ Returned
     /\ Len(gq_outcomes) >= 2
     /\ RateLimited(gq_outcomes[1])
     /\ gq_outcomes[2].kind = "error")
        => gq_result = fallback_response

\* C3: every invocation of chat_completion eventually returns the service's
\* text or the fixed apology and never raises, whatever the service does,
\* a service that rate-limits every call included.
C3_AlwaysReturns ==
    /\ [](gq_result # "raised")
    /\ (gq_frames # <<>>) ~> (gq_frames = <<>> /\ gq_result \in {ServiceText, fallback_response})

\* The service rate-limited every call it received and the caller got the apology.
C3_Witness ==
    /\ Returned
    /\ gq_result = fallback_response
    /\ gq_calls = RecursionLimit - 1
    /\ \A i \in 1..Len(gq_outcomes) : RateLimited(gq_outcomes[i])

\* C4: when the first call fails with an error that is no rate-limit signal,
\* chat_completion makes no further call, does not sleep and returns the
\* fixed apology.
C4_NoRetryOnOtherError ==
    (/\ Len(gq_outcomes) >= 1
     /\ gq_outcomes[1].kind = "error"
     /\ gq_outcomes[1].msg = {})
        => (/\ gq_calls = 1
            /\ gq_sleeps = 0
            /\ gq_frames = <<>>
            /\ gq_result = fallback_response)

C4_Witness ==
    /\ Returned
    /\ gq_outcomes = <<[kind |-> "error", msg |-> {}]>>
    /\ gq_result = fallback_response

(***************************************************************************)
(* Properties of the splitter on one page (SplitSpec)                      *)
(***************************************************************************)

\* C5: every chunk of a page but possibly the last has an estimated token
\* count (len(text) // 4) of at most chunk_size.
C5_ChunksWithinBudget ==
    sp_pc = "done" =>
        \A i \in 1..(Len(sp_chunks) - 1) :
            estimate_tokens(JoinLen(sp_chunks[i].sents)) <= sp_cfg.chunk_size

\* The sentences chunk i shares with the chunk before it.
SharedPrefix(i) == SubSeq(sp_chunks[i].sents, 1, sp_chunks[i].overlap)

IsSuffix(s, t) == Len(s) <= Len(t) /\ s = SubSeq(t, Len(t) - Len(s) + 1, Len(t))

\* C6: every chunk but the first begins with whole sentences that end the
\* chunk before it, and the estimated token count of that shared text is at
\* most chunk_overlap.
C6_OverlapWithinBudget ==
    sp_pc = "done" =>
        \A i \in 2..Len(sp_chunks) :
            /\ IsSuffix(SharedPrefix(i), sp_chunks[i - 1].sents)
            /\ estimate_tokens(JoinLen(SharedPrefix(i))) <= sp_cfg.chunk_overlap

\* C7: at every chunk boundary the new chunk starts with a non-empty overlap
\* from the end of the chunk just closed, and the overlap is never the whole
\* of that chunk.
C7_OverlapNonEmptyProper ==
    sp_pc = "done" =>
        \A i \in 2..Len(sp_chunks) :
            /\ sp_chunks[i].overlap >= 1
            /\ sp_chunks[i].overlap < Len(sp_chunks[i - 1].sents)

\* The state of _create_chunks_from_sentences when its loop over the
\* sentences of the page has ended.
LoopEnd ==
    chunk_loop(sp_cfg, sp_sentences, 1,
               [chunks |-> <<>>, current_chunk |-> <<>>, current_tokens |-> 0,
                seeded |-> 0])

\* C26: only the final chunk of a page can be discarded; it is discarded
\* exactly when its estimated token count is below one quarter of
\* min_chunk_size, whatever min_chunk_size is; every earlier chunk is
\* emitted, and a page without text gives no chunk.
C26_FinalChunkDroppedBelowQuarter ==
    sp_pc = "done" =>
        LET final == LoopEnd.current_chunk
            below_quarter == 4 * estimate_tokens(JoinLen(final)) < sp_cfg.min_chunk_size
        IN  /\ sp_sentences = <<>> => sp_chunks = <<>>
            /\ sp_sentences # <<>> =>
                   sp_chunks = IF below_quarter
                               THEN LoopEnd.chunks
                               ELSE Append(LoopEnd.chunks,
                                           ChunkText(final, LoopEnd.seeded))

\* Where the k-th emitted chunk lies in the page: a chunk starts with its
\* overlap sentences, which are the last sentences of the chunk before it.
RECURSIVE ChunkStart(_), ChunkEnd(_)
ChunkStart(k) ==
    IF k = 1 THEN 1 ELSE ChunkEnd(k - 1) + 1 - sp_chunks[k].overlap

ChunkEnd(k) == ChunkStart(k) + Len(sp_chunks[k].sents) - 1

\* How many sentences of the page, counted from its start, the emitted
\* chunks reach.
Covered == IF sp_chunks = <<>> THEN 0 ELSE ChunkEnd(Len(sp_chunks))

\* C29: each emitted chunk holds consecutive sentences of the page in their
\* original order, and the sentences that no emitted chunk holds are exactly
\* the sentences that only the discarded final chunk held.
C29_ChunksCoverThePage ==
    sp_pc = "done" =>
        /\ \A k \in 1..Len(sp_chunks) :
               /\ ChunkStart(k) >= 1
               /\ ChunkEnd(k) <= Len(sp_sentences)
               /\ \A j \in 1..Len(sp_chunks[k].sents) :
                      sp_chunks[k].sents[j] = sp_sentences[ChunkStart(k) + j - 1]
        /\ \/ Covered = Len(sp_sentences)
           \/ /\ sp_chunks = LoopEnd.chunks
              /\ Len(sp_sentences) - Covered
                     = Len(LoopEnd.current_chunk) - LoopEnd.seeded

\* A page split into chunks with overlap whose final chunk was discarded,
\* taking a sentence with it.
C29_Witness ==
    /\ sp_pc = "done"
    /\ Len(sp_chunks) >= 2
    /\ \E k \in 1..Len(sp_chunks) : sp_chunks[k].overlap > 0
    /\ Covered < Len(sp_sentences)

\* s occurs in t as a run of consecutive elements
IsRun(s, t) ==
    \E start \in 0..(Len(t) - Len(s)) :
        \A j \in 1..Len(s) : s[j] = t[start + j]

\* The page of the document that a chunk names.
PageOf(chunk) ==
    {p \in 1..Len(cd_document.pages) :
        cd_document.pages[p].page_number = chunk.page_number}

\* C27: the text of every chunk is made only of sentences of the page that
\* its page_number names; the first chunk of each page starts without
\* overlap, so no overlap crosses a page boundary; page_number never
\* decreases as chunk_index increases.
C27_ChunksStayOnTheirPage ==
    cd_pc = "done" =>
        \A k \in 1..Len(cd_chunks) :
            LET chunk == cd_chunks[k] IN
            /\ PageOf(chunk) # {}
            /\ \A p \in PageOf(chunk) :
                   IsRun(chunk.text.sents, cd_document.pages[p].sentences)
            /\ (k = 1 \/ cd_chunks[k - 1].page_number # chunk.page_number)
                   => chunk.text.overlap = 0
            /\ k > 1 => /\ cd_chunks[k - 1].chunk_index < chunk.chunk_index
                        /\ cd_chunks[k - 1].page_number <= chunk.page_number

\* A document of two pages that both give chunks, the second page giving a
\* chunk that starts with overlap sentences.
C27_Witness ==
    /\ cd_pc = "done"
    /\ \E j, k \in 1..Len(cd_chunks) :
           /\ cd_chunks[j].page_number = 1
           /\ cd_chunks[k].page_number = 2
           /\ cd_chunks[k].text.overlap > 0
           /\ cd_document.pages[1].sentences # cd_document.pages[2].sentences

(***************************************************************************)
(* Properties of the ingestion run (IngestSpec)                            *)
(***************************************************************************)

\* C8: the chunk_index values chunk_document assigns are 0, 1, 2, ... in
\* output order over the whole document, whatever the number of pages and
\* whichever pages yield no chunk.
C8_ChunkIndexContiguous ==
    \A e \in 1..Len(chunks_by_doc) :
        \A i \in 1..Len(chunks_by_doc[e][2]) :
            chunks_by_doc[e][2][i].chunk_index = i - 1

\* One document has chunks of two pages, another has a first page without
\* chunks and chunks on its second page.
C8_Witness ==
    /\ \E e \in 1..Len(chunks_by_doc) :
          LET cs == chunks_by_doc[e][2] IN
          Len(cs) >= 3 /\ cs[1].page_number # cs[Len(cs)].page_number
    /\ \E e \in 1..Len(chunks_by_doc) :
          LET cs == chunks_by_doc[e][2] IN
          Len(cs) >= 2 /\ cs[1].page_number = 2

\* C9: after an ingestion run no two tagged chunks of the corpus, of one
\* document or of different documents, have the same chunk_id.
C9_ChunkIdsUnique ==
    in_pc = "done" =>
        \A i, j \in 1..Len(all_chunks) :
            i # j => all_chunks[i].chunk_id # all_chunks[j].chunk_id

\* Two documents with the same pages were ingested, each giving several chunks.
C9_Witness ==
    /\ in_pc = "done"
    /\ Len(documents) = 2
    /\ documents[1].pages = documents[2].pages
    /\ Len(all_chunks) >= 6

\* C10: no two documents returned by load_all_pdfs carry the same file_hash.
C10_FileHashUnique ==
    \A i, j \in 1..Len(documents) :
        i # j => documents[i].file_hash # documents[j].file_hash

\* C11: the pages of a document returned by load_pdf all come from the one
\* engine named by extraction_method, the primary engine when it did not fail
\* and the fallback engine otherwise; the fallback engine runs only after a
\* primary failure with fallback enabled; when both fail, or the primary
\* fails with fallback disabled, no document is returned.
C11_SingleEngine ==
    ld_pc = "done" =>
        LET doc == ld_run.doc
            primary_failed == ld_file.primary = "raise"
        IN  /\ doc # <<>> =>
                /\ doc[1].extraction_method =
                       (IF primary_failed THEN "pdfplumber" ELSE "pymupdf")
                /\ \A i \in 1..Len(doc[1].pages) :
                       doc[1].pages[i].engine = doc[1].extraction_method
            /\ (\E i \in 1..Len(ld_run.calls) : ld_run.calls[i] = "pdfplumber") =>
                /\ primary_failed
                /\ ld_fallback
                /\ ld_run.calls = <<"hash", "pymupdf", "pdfplumber">>
            /\ (primary_failed /\ (~ld_fallback \/ ld_file.fallback = "raise")) =>
                doc = <<>>

C11_Witness ==
    /\ ld_pc = "done"
    /\ ld_run.doc # <<>>
    /\ ld_file.primary = "raise"
    /\ ld_run.doc[1].pages[1].engine = "pdfplumber"

\* C12: for a file that is missing, has an extension outside the allow-list,
\* is larger than the configured maximum or does not open as a PDF, load_pdf
\* returns no document and neither hashes the file nor runs an engine; a file
\* whose size equals the maximum passes validation when the other checks do.
C12_ValidationFirst ==
    ld_pc = "done" =>
        LET max_bytes == MAX_PDF_SIZE_MB * BytesPerMB
            others_fail == \/ ~ld_file.exists
                           \/ Suffix(ld_name) \notin SUPPORTED_PDF_EXTENSIONS
                           \/ ~ld_file.openable
        IN  /\ (others_fail \/ ld_file.size > max_bytes) =>
                /\ ld_run.doc = <<>>
                /\ ld_run.calls = <<>>
                /\ ~ld_run.raised
            /\ (~others_fail /\ ld_file.size = max_bytes) =>
                ld_run.calls # <<>>

C12_Witness ==
    /\ ld_pc = "done"
    /\ ld_file.exists /\ ld_file.openable /\ ld_file.readable
    /\ Suffix(ld_name) \in SUPPORTED_PDF_EXTENSIONS
    /\ ld_file.size > MAX_PDF_SIZE_MB * BytesPerMB
    /\ ld_file.primary = "pages"
    /\ ld_run.doc = <<>>
    /\ ld_run.calls = <<>>

\* C13: in load_all_pdfs a failure on one file, hashing included, never stops
\* the batch: the loop reaches its end and every enumerated file is then in
\* the returned documents or in the failed-files list.
C13_BatchNeverStops ==
    /\ in_pc # "raised"
    /\ in_pc \notin {"start", "loading", "raised"} =>
           Len(documents) + Len(failed_files) = Cardinality(GlobPdf(in_dir))

(***************************************************************************)
(* Properties of the query path (QuerySpec, ConcurrentSpec)                *)
(***************************************************************************)

Retrieved(r) == r \in rq_active /\ rq_pc[r] \in {"retrieved", "done"}
Done(r) == r \in rq_active /\ rq_pc[r] = "done"

\* The rows of the store that pass the filter of r above the threshold.
QualifyingRows(r) ==
    {i \in 1..Len(vs_rows) : /\ rq_filter[r] = <<>> \/ vs_rows[i].metadata = rq_filter[r][1]
                             /\ rq_sims[r][i] > rp_threshold}

\* res holds at most top_k chunks of the store, each above the threshold and
\* passing the filter, in non-increasing similarity order.
BoundedAndOrdered(r, res) ==
    /\ Len(res) <= rp_top_k
    /\ \A j \in 1..Len(res) :
           /\ res[j].chunk_id \in QualifyingRows(r)
           /\ res[j].similarity = rq_sims[r][res[j].chunk_id]
           /\ res[j].similarity > rp_threshold
    /\ \A j, k \in 1..Len(res) : j # k => res[j].chunk_id # res[k].chunk_id
    /\ \A j \in 1..(Len(res) - 1) : res[j].similarity >= res[j + 1].similarity

\* res is a choice of the top_k most similar qualifying rows.
IsTopK(r, res) ==
    /\ Len(res) = MinOf(rp_top_k, Cardinality(QualifyingRows(r)))
    /\ \A c \in QualifyingRows(r) :
           (\A j \in 1..Len(res) : res[j].chunk_id # c) =>
               \A j \in 1..Len(res) : rq_sims[r][c] <= res[j].similarity

\* C14 as stated: the sequence retrieve returns holds at most top_k chunks,
\* each with similarity strictly above the threshold, in non-increasing
\* similarity order, and they are the top_k most similar qualifying chunks of
\* the store.
C14_RetrieveIsTopK ==
    \A r \in Requests :
        Retrieved(r) =>
            /\ BoundedAndOrdered(r, rq_found[r].results)
            /\ IsTopK(r, rq_found[r].results)

\* C14 amended: the sequence retrieve returns holds at most top_k chunks of
\* the store, each strictly above the threshold, in non-increasing similarity
\* order; it is empty when the vector-store call failed, and it is the top_k
\* most similar qualifying chunks when the call succeeded on an exact scan.
C14_RetrieveBounded ==
    \A r \in Requests :
        Retrieved(r) =>
            /\ BoundedAndOrdered(r, rq_found[r].results)
            /\ ~rq_found[r].call_ok => rq_found[r].results = <<>>
            /\ (rq_found[r].call_ok /\ ~vs_ivfflat) => IsTopK(r, rq_found[r].results)

C14_Witness ==
    /\ Retrieved(1)
    /\ rq_found[1].call_ok
    /\ ~vs_ivfflat
    /\ Len(rq_found[1].results) = rp_top_k
    /\ Cardinality(QualifyingRows(1)) > rp_top_k

\* C15: when retrieval yields no chunk, because none exceeds the threshold or
\* because the store call failed, query() completes, sends the no-context
\* prompt to the completion service and returns an empty sources list.
C15_EmptyRetrievalNoContext ==
    \A r \in Requests :
        (Done(r) /\ rq_found[r].results = <<>>) =>
            /\ rq_generated[r] # <<>>
            /\ rq_generated[r][1].prompt = create_no_context_prompt
            /\ rq_generated[r][1].response.sources = <<>>

C15_Witness ==
    /\ Done(1)
    /\ ~rq_found[1].call_ok
    /\ QualifyingRows(1) # {}
    /\ rq_generated[1][1].prompt.kind = "no_context"

\* C16: generate puts exactly the min(max_context_chunks, retrieved) chunks of
\* highest similarity into the prompt, in non-increasing similarity order,
\* and cites exactly those chunks in the same order, whatever the answer.
C16_ContextIsCited ==
    \A r \in Requests :
        Done(r) =>
            LET got == rq_found[r].results
                gen == rq_generated[r][1]
                n == MinOf(rp_max_context, Len(got))
                InPrompt(c) == \E j \in 1..Len(gen.prompt.context) :
                                   gen.prompt.context[j].page_number = c.page_number
                SimOfPage(p) ==
                    (CHOOSE k \in 1..Len(got) : got[k].page_number = p)
            IN  /\ Len(gen.prompt.context) = n
                /\ Len(gen.response.sources) = n
                /\ \A j \in 1..n :
                       /\ \E k \in 1..Len(got) :
                              got[k].page_number = gen.prompt.context[j].page_number
                       /\ gen.response.sources[j].document =
                              gen.prompt.context[j].document_name
                       /\ gen.response.sources[j].page =
                              gen.prompt.context[j].page_number
                /\ \A j \in 1..(n - 1) :
                       got[SimOfPage(gen.prompt.context[j].page_number)].similarity >=
                           got[SimOfPage(gen.prompt.context[j + 1].page_number)].similarity
                /\ \A k \in 1..Len(got) :
                       ~InPrompt(got[k]) =>
                           \A j \in 1..n :
                               got[k].similarity <=
                                   got[SimOfPage(gen.prompt.context[j].page_number)].similarity

C16_Witness ==
    /\ Done(1)
    /\ Len(rq_found[1].results) > rp_max_context
    /\ rq_generated[1][1].response.answer = fallback_response
    /\ Len(rq_generated[1][1].response.sources) = rp_max_context

\* C17: every request computes one query embedding and issues one similarity
\* search, the store and the pipeline settings stay as they were, and under
\* every interleaving the response of a request is the one its own retrieval
\* and its own completion result give.
C17_RequestsIndependent ==
    /\ vs_rows = StoreRows
    /\ rp_top_k = DEFAULT_TOP_K
    /\ rp_threshold = DEFAULT_SIMILARITY_THRESHOLD
    /\ rp_max_context = DEFAULT_MAX_CONTEXT_CHUNKS
    /\ \A r \in Requests :
           Done(r) =>
               /\ rq_embeds[r] = 1
               /\ rq_searches[r] = 1
               /\ rq_generated[r][1].response =
                      generate(rq_found[r].results, rp_max_context,
                               rq_generated[r][1].response.answer).response

C17_Witness ==
    /\ Done(1)
    /\ rq_pc[2] = "retrieved"
    /\ rq_found[1].results # <<>>
    /\ rq_found[2].results # <<>>
    /\ rq_found[1].results # rq_found[2].results

(***************************************************************************)
(* Properties of the singleton accessors (SingletonSpec)                   *)
(***************************************************************************)

\* The value is an instance whose constructor has run to its end.
FullyConstructed(fn, value) ==
    /\ value # <<>>
    /\ IF fn = "rag"
       THEN /\ value[1] \in 1..Len(sg_pipelines)
            /\ sg_pipelines[value[1]].ready
            /\ sg_pipelines[value[1]].llm # <<>>
            /\ sg_pipelines[value[1]].llm[1] \in 1..sg_clients
       ELSE value[1] \in 1..sg_clients

C19_DimensionEnforced ==
    /\ \A j \in 1..Len(up_rows) : up_rows[j].embedding_len = VECTOR_DIMENSION
    /\ (\E k \in 1..Len(up_batches) : \E j \in 1..Len(up_batches[k].chunks) :
            up_batches[k].chunks[j].embedding_len # VECTOR_DIMENSION)
           => up_pc = "raised"

(***************************************************************************)
(* Properties of embed_chunks (EmbedSpec)                                  *)
(***************************************************************************)

\* C20: embed_chunks does not abort when a chunk cannot be embedded; it
\* returns every input chunk in input order, each with an embedding of the
\* configured length; a chunk that cannot be embedded gets the all-zero
\* vector and every other chunk of the run gets its real embedding.
C20_FailureIsolated ==
    /\ (\E j \in 1..Len(em_chunks) : ~em_chunks[j].encodable) => em_pc # "raised"
    /\ em_pc = "done" =>
           /\ Len(em_out) = Len(em_chunks)
           /\ \A j \in 1..Len(em_out) :
                  /\ em_out[j].chunk_id = em_chunks[j].chunk_id
                  /\ em_out[j].embedding.len = dimension_of(em_embedder)
                  /\ em_out[j].embedding.zero = ~em_chunks[j].encodable

(***************************************************************************)
(* Properties of upload_chunks_batch: the counters (UploadSpec)            *)
(***************************************************************************)

\* The chunks of the batches attempted so far, in order.
RECURSIVE AttemptedChunks(_)
AttemptedChunks(n) ==
    IF n = 0 THEN <<>> ELSE AttemptedChunks(n - 1) \o up_batches[n].chunks

\* The number of chunks in the first n attempted batches whose outcome is ok.
RECURSIVE ChunksWithOutcome(_, _)
ChunksWithOutcome(n, ok) ==
    IF n = 0 THEN 0
    ELSE ChunksWithOutcome(n - 1, ok)
             + (IF up_batches[n].ok = ok THEN Len(up_batches[n].chunks) ELSE 0)

\* C30: upload_chunks_batch attempts every batch, also after a batch has
\* failed; when it returns, the attempted batches hold every chunk exactly
\* once, success + failed = total, success is the number of chunks of the
\* batches that succeeded and failed the number of chunks of the batches
\* that failed.
C30_UploadCountsEveryChunk ==
    up_pc = "done" =>
        LET stats == up_stats[1]
            n == Len(up_batches)
        IN  /\ AttemptedChunks(n) = up_chunks
            /\ stats.total = Len(up_chunks)
            /\ stats.success + stats.failed = stats.total
            /\ stats.success = ChunksWithOutcome(n, TRUE)
            /\ stats.failed = ChunksWithOutcome(n, FALSE)

\* A run that returned after a batch of two chunks failed and a later batch
\* succeeded.
C30_Witness ==
    /\ up_pc = "done"
    /\ \E j, k \in 1..Len(up_batches) :
           /\ j < k
           /\ ~up_batches[j].ok
           /\ Len(up_batches[j].chunks) = 2
           /\ up_batches[k].ok

(***************************************************************************)
(* Properties of the quality score (QualitySpec)                           *)
(***************************************************************************)

LengthStep(text) ==
    IF word_count(text) < 20 THEN 5000
    ELSE IF word_count(text) < 50 THEN 8000
    ELSE IF word_count(text) > 600 THEN 9000
    ELSE 10000

AlphaStep(score, text) ==
    IF 5 * alpha_chars(text) < 2 * text_len(text) THEN (score * 6) \div 10 ELSE score

DigitStep(score, text) ==
    IF has_numbers(text)
    THEN (IF (score * 11) \div 10 > 10000 THEN 10000 ELSE (score * 11) \div 10)
    ELSE score

WordLengthPenalised(text) ==
    /\ word_count(text) > 0
    /\ \/ word_chars(text) < 2 * word_count(text)
       \/ word_chars(text) > 20 * word_count(text)

WordLengthStep(score, text) ==
    IF WordLengthPenalised(text) THEN (score * 7) \div 10 ELSE score

StepsInOrder(text) ==
    LET score == WordLengthStep(DigitStep(AlphaStep(LengthStep(text), text), text), text)
    IN  IF score > 10000 THEN 10000 ELSE IF score < 0 THEN 0 ELSE score

\* C24 as stated: for non-empty text the score equals the result of the
\* length factor, the alphabetic factor, the digit bonus capped at 1.0 and
\* the word-length penalty, applied in this order and clamped to [0,1].
C24_ScoreIsStepsInOrder ==
    \A c \in qs_built :
        text_len(c.text) > 0 => 10 * c.quality_score = StepsInOrder(c.text)

\* C24 amended: for non-empty text the score is that result rounded to
\* three decimals; the digit bonus is capped before the word-length penalty,
\* so a text with a digit and a penalised word length never scores above 0.7.
C24_ScoreIsRoundedStepsInOrder ==
    \A c \in qs_built :
        text_len(c.text) > 0 =>
            /\ 10 * c.quality_score - StepsInOrder(c.text) \in -5..5
            /\ (has_numbers(c.text) /\ WordLengthPenalised(c.text))
                   => c.quality_score <= 700

\* A chunk whose text takes all four factors (0.8, 0.6, 1.1, 0.7) and whose
\* score 0.3696 is returned as 0.37.
C24_Witness ==
    \E c \in qs_built :
        /\ StepsInOrder(c.text) = 3696
        /\ c.quality_score = 370

(***************************************************************************)
(* Properties of tag_chunk (TagSpec)                                       *)
(***************************************************************************)

\* No keyword of any topic category occurs in the lower-cased text.
NoTopicMatches ==
    \A c \in 1..Len(topic_keywords) :
        \A k \in 1..Len(topic_keywords[c].keywords) :
            ~str_in(topic_keywords[c].keywords[k], lower(tg_text))

\* C22: for every text, the empty one included, tag_chunk returns at least
\* one topic; when no topic category matches, the topics are exactly the one
\* entry {main: General, sub: Uncategorized}.
C22_TopicsNeverEmpty ==
    tg_pc = "done" =>
        /\ Len(tg_meta[1].topics) >= 1
        /\ NoTopicMatches =>
               tg_meta[1].topics =
                   <<[main |-> <<"G", "e", "n", "e", "r", "a", "l">>,
                      sub |-> <<"U", "n", "c", "a", "t", "e", "g", "o", "r", "i", "z",
                                "e", "d">>]>>

\* A text of several words, none of them a topic keyword, was tagged.
C22_Witness ==
    /\ tg_pc = "done"
    /\ Len(tg_text) > 3
    /\ \E i \in 1..Len(tg_text) : is_letter(tg_text[i])
    /\ NoTopicMatches
    /\ tg_meta[1].topics = <<GENERAL_UNCATEGORIZED>>

\* C23: every element of income_ranges is one of the four buckets, no
\* bucket occurs twice, and the list is in lexicographic order.
C23_IncomeRangesSorted ==
    tg_pc = "done" =>
        LET ranges == tg_meta[1].income_ranges IN
        /\ \A i \in 1..Len(ranges) :
               \E b \in 1..Len(normalized_income_ranges) :
                   ranges[i] = normalized_income_ranges[b]
        /\ \A i, j \in 1..Len(ranges) :
               i < j => ranges[i] # ranges[j] /\ str_less(ranges[i], ranges[j])

\* A text that falls in all four buckets, so that 10-15L and 15L+ come
\* before 5-10L.
C23_Witness ==
    /\ tg_pc = "done"
    /\ Len(tg_meta[1].income_ranges) = 4
    /\ tg_meta[1].income_ranges[4] = <<"5", "-", "1", "0", "L">>

\* A word that can be a keyword: lower-case letters only, longer than 3,
\* not a stop word.
Candidate(w) ==
    /\ Len(w) > 3
    /\ \A j \in 1..Len(w) : is_lower(w[j])
    /\ w \notin stop_words

\* The positions in words where a candidate word occurs for the first time.
FirstOccurrences(words) ==
    {n \in 1..Len(words) :
        Candidate(words[n]) /\ \A j \in 1..(n - 1) : words[j] # words[n]}

\* How often the word at each of these positions occurs in words.
Frequencies(words) ==
    [n \in FirstOccurrences(words) |->
        Cardinality({j \in 1..Len(words) : words[j] = words[n]})]

\* The word first seen at m ranks before the word first seen at n: it is
\* more frequent, or as frequent and first seen earlier.
RanksBefore(frequency, m, n) ==
    \/ frequency[m] > frequency[n]
    \/ frequency[m] = frequency[n] /\ m < n

\* C28: the keywords are at most 10, without duplicates, all of them
\* candidate words of the text (lower-case letters only, longer than 3, no
\* stop words), ordered by non-increasing frequency with equal frequencies
\* in order of first occurrence, and no candidate word that is left out
\* ranks before one that is kept.
C28_KeywordsAreTopTen ==
    tg_pc = "done" =>
        LET keywords == tg_meta[1].keywords
            words == findall_words(lower(tg_text), 1, <<>>, <<>>)
            first == FirstOccurrences(words)
            frequency == Frequencies(words)
        IN  /\ Len(keywords) <= 10
            /\ \A i \in 1..Len(keywords) : \E n \in first : words[n] = keywords[i]
            /\ LET at == [i \in 1..Len(keywords) |->
                             CHOOSE n \in first : words[n] = keywords[i]]
               IN  /\ \A i, j \in 1..Len(keywords) :
                          i < j => at[i] # at[j] /\ RanksBefore(frequency, at[i], at[j])
                   /\ \A n \in first :
                          (\A i \in 1..Len(keywords) : at[i] # n)
                              => Len(keywords) = 10 /\ RanksBefore(frequency, at[10], n)

\* A text with more than ten candidate words, the most frequent of them
\* first seen after another one, and two equally frequent ones among the
\* keywords.
C28_Witness ==
    /\ tg_pc = "done"
    /\ Len(tg_meta[1].keywords) = 10
    /\ LET keywords == tg_meta[1].keywords
           words == findall_words(lower(tg_text), 1, <<>>, <<>>)
           first == FirstOccurrences(words)
           frequency == Frequencies(words)
       IN  /\ Cardinality(first) > 10
           /\ \E m, n \in first :
                  /\ words[m] = keywords[1]
                  /\ words[n] = keywords[2]
                  /\ frequency[m] > frequency[n]
                  /\ m > n
           /\ \E m, n \in first :
                  /\ words[m] = keywords[2]
                  /\ words[n] = keywords[3]
                  /\ frequency[m] = frequency[n]

(***************************************************************************)
(* Properties of _split_into_sentences (SentenceSpec)                      *)
(***************************************************************************)

\* ' '.join(sentences)
RECURSIVE JoinWithSpaces(_)
JoinWithSpaces(sentences) ==
    IF sentences = <<>> THEN <<>>
    ELSE IF Len(sentences) = 1 THEN sentences[1]
    ELSE sentences[1] \o <<" ">> \o JoinWithSpaces(Tail(sentences))

\* A text without its whitespace.
WithoutSpaces(text) == SelectSeq(text, LAMBDA c : ~is_space(c))

\* C25: the sentences returned, joined with single spaces, are the input
\* text up to whitespace: abbreviations are as they were written and no
\* other text is altered.
C25_SplitIsRoundTrip ==
    ss_pc = "done" =>
        WithoutSpaces(JoinWithSpaces(ss_sentences)) = WithoutSpaces(ss_text)

====
